---- MODULE Spec2Model ----
(***************************************************************************)
(* Model of the document segmentation and anonymization-quality scoring    *)
(* engine of redact-with-ai: chunk_text (utils.py), the five probes of    *)
(* ReconstructionTester (testing_engine.py) and ScoringSystem              *)
(* (scoring_system.py).                                                    *)
(*                                                                         *)
(* Strings are sequences of one-character strings.  Numbers that the code  *)
(* keeps as floats are kept exact: a score is a count of hundredths.       *)
(***************************************************************************)
EXTENDS Integers, Sequences, FiniteSets, TLC

VARIABLES
    \* ---- chunk_text (utils.py) ----
    text,             \* argument: the text to chunk
    chunk_size,       \* argument: chunk budget in tokens
    overlap,          \* argument: overlap budget in tokens
    paragraphs,       \* paragraphs the outer loop has still to visit
    sentences,        \* sentences the inner loop has still to visit
    chunks,           \* the list of chunk dicts built so far
    current_chunk,    \* the buffer
    current_tokens,   \* the buffer's running token estimate
    overlap_texts,    \* history: the overlap_text each buffer was seeded with
    cpc,              \* position in chunk_text: "para", "sent", "done"
    \* ---- ReconstructionTester (testing_engine.py) ----
    document_corpus,  \* self.document_corpus
    original_text,    \* argument of run_all_tests
    anonymized_text,  \* argument of run_all_tests
    results,          \* the local dict `results` of run_all_tests
    report,           \* what run_all_tests returned
    ner_failed,       \* history: spacy raised inside extract_entities_spacy
    service_outcome,  \* history: what the generation service did in this run
    pc,               \* position in run_all_tests
    added_documents,  \* history: the argument of every add_to_corpus call
    xref_text,        \* argument of a test_cross_reference call of its own
    corpus_at_call,   \* history: self.document_corpus when it was called
    xref_similarities,  \* the local list `similarities` of that call
    xref_next,        \* how many corpus entries its for loop has taken
    xref_result,      \* what that call returned
    xpc,              \* position in that call: "idle", "loop", "after",
                      \* "returned"
    \* ---- config.py and ScoringSystem (scoring_system.py) ----
    scoring_weights,  \* config.SCORING_WEIGHTS as the deployment has it
    self_weights,     \* self.weights (<<>> while no scorer is constructed)
    reconstruction_results,  \* the probe results handed to the two scorers
    tester_resistance,       \* ReconstructionTester.calculate_resistance_score
    scorer_resistance,       \* calculate_reconstruction_resistance_score
    self_thresholds,         \* self.thresholds
    strategic_value_results, \* argument of calculate_overall_score
    overall_result,          \* what calculate_overall_score returned
    quality_score,           \* argument of a direct get_quality_level call
    quality_result,          \* what that call returned
    spc,              \* the scorer's last call: "new", "ready", "scored",
                      \* "overall", "leveled"
    \* ---- DocumentProcessor.process_batch (document_processor.py) ----
    uploaded_files,   \* argument of process_batch
    batch_results,    \* the local list `results`, then what was returned
    bpc,              \* position in process_batch: "idle", "loop",
                      \* "returned", "raised"
    \* ---- OllamaClient.anonymize_chunks (ollama_client.py) ----
    anon_chunks,        \* argument `chunks`
    anon_strategy,      \* argument `strategy`
    anon_guidelines,    \* argument `custom_guidelines`
    anonymized_chunks,  \* the local list of that name
    failed_chunks,      \* the local list of that name
    anon_next,          \* how many chunks the for loop has taken
    anon_calls,         \* history: the chunk and the prompt template of
                        \* every anonymize_text call
    anon_result,        \* what anonymize_chunks returned
    apc,                \* position in anonymize_chunks: "idle", "loop",
                        \* "returned"
    \* ---- ErrorHandler.validate_strategy_config (error_handler.py) ----
    config_strategy,    \* argument `strategy`
    config_guidelines,  \* argument `custom_guidelines`
    config_result,      \* what the call returned
    vpc,                \* "idle", "called", "returned"
    \* ---- ScoringSystem.calculate_strategic_value_score ----
    value_original,     \* argument `original_text`
    value_anonymized,   \* argument `anonymized_text`
    value_scores,       \* the four sub-scores, as fractions
    value_total,        \* what the call returned, as a fraction
    svpc,               \* "idle", "called", "returned"
    \* ---- error_handler.retry_with_backoff ----
    retry_func,         \* what `func` does at its 1st, 2nd, ... invocation
    retry_max,          \* argument `max_retries`
    retry_delay,        \* argument `initial_delay`
    retry_attempt,      \* the loop variable `attempt`
    retry_calls,        \* history: the outcomes of the invocations made
    retry_sleeps,       \* history: the sleeps, each after an invocation
    retry_result,       \* what the call returned or raised
    rpc,                \* "idle", "loop", "sleeping", "returned", "raised"
    \* ---- main.py: st.session_state ----
    session_processed_documents,
    session_anonymization_results,
    session_test_results,
    session_current_document,   \* a file's name, or "None"
    tests_computed_from,        \* history: the anonymization result that the
                                \* stored test results of a document were
                                \* computed from
    results_shown               \* what the Results page has put together

chunkVars == <<text, chunk_size, overlap, paragraphs, sentences, chunks,
               current_chunk, current_tokens, overlap_texts, cpc>>

xrefVars == <<xref_text, corpus_at_call, xref_similarities, xref_next,
              xref_result, xpc>>

testerVars == <<document_corpus, original_text, anonymized_text, results,
                report, ner_failed, service_outcome, pc, added_documents,
                xrefVars>>

scoreVars == <<scoring_weights, self_weights, reconstruction_results,
               tester_resistance, scorer_resistance, self_thresholds,
               strategic_value_results, overall_result, quality_score,
               quality_result, spc>>

batchVars == <<uploaded_files, batch_results, bpc>>

anonVars == <<anon_chunks, anon_strategy, anon_guidelines, anonymized_chunks,
              failed_chunks, anon_next, anon_calls, anon_result, apc>>

configVars == <<config_strategy, config_guidelines, config_result, vpc>>

valueVars == <<value_original, value_anonymized, value_scores, value_total,
               svpc>>

retryVars == <<retry_func, retry_max, retry_delay, retry_attempt, retry_calls,
               retry_sleeps, retry_result, rpc>>

sessionVars == <<session_processed_documents, session_anonymization_results,
                 session_test_results, session_current_document,
                 tests_computed_from, results_shown>>

auxVars == <<batchVars, anonVars, configVars, valueVars, retryVars,
             sessionVars>>

\* what a component's actions leave alone
exceptBatch == <<chunkVars, testerVars, scoreVars, anonVars, configVars,
                 valueVars, retryVars, sessionVars>>
exceptAnon == <<chunkVars, testerVars, scoreVars, batchVars, configVars,
                valueVars, retryVars, sessionVars>>
exceptConfig == <<chunkVars, testerVars, scoreVars, batchVars, anonVars,
                  valueVars, retryVars, sessionVars>>
exceptValue == <<chunkVars, testerVars, scoreVars, batchVars, anonVars,
                 configVars, retryVars, sessionVars>>
exceptRetry == <<chunkVars, testerVars, scoreVars, batchVars, anonVars,
                 configVars, valueVars, sessionVars>>
exceptSession == <<batchVars, anonVars, configVars, valueVars, retryVars>>

vars == <<chunkVars, testerVars, scoreVars, auxVars>>

-----------------------------------------------------------------------------
(* Bounds of the model.                                                    *)

MaxPieces == 5
MaxChunkSize == 2
MaxOverlap == 2
MaxWords == 3
MaxCorpus == 1
MaxAdds == 2
MaxPatternWords == 6
MaxBatch == 3
MaxChunks == 3
MaxValueWords == 2
MaxRetries == 3
MaxUploads == 2

-----------------------------------------------------------------------------
(* Python string primitives on character sequences.                        *)

IsSpace(c) == c \in {" ", "\n"}

IsTerminal(c) == c \in {".", "!", "?"}

RECURSIVE LStrip(_)
LStrip(s) == IF s # <<>> /\ IsSpace(Head(s)) THEN LStrip(Tail(s)) ELSE s

RECURSIVE RStrip(_)
RStrip(s) ==
    IF s # <<>> /\ IsSpace(s[Len(s)]) THEN RStrip(SubSeq(s, 1, Len(s) - 1)) ELSE s

\* str.strip()
Strip(s) == RStrip(LStrip(s))

RECURSIVE SplitWs(_, _)
SplitWs(s, cur) ==
    IF s = <<>> THEN (IF cur = <<>> THEN <<>> ELSE <<cur>>)
    ELSE IF IsSpace(Head(s))
         THEN (IF cur = <<>> THEN <<>> ELSE <<cur>>) \o SplitWs(Tail(s), <<>>)
         ELSE SplitWs(Tail(s), Append(cur, Head(s)))

\* str.split(): the maximal runs of non-whitespace characters
Words(s) == SplitWs(s, <<>>)

RECURSIVE Join(_, _)
\* sep.join(ws)
Join(ws, sep) ==
    IF ws = <<>> THEN <<>>
    ELSE IF Len(ws) = 1 THEN ws[1]
    ELSE ws[1] \o sep \o Join(Tail(ws), sep)

RECURSIVE SplitBlankLine(_, _)
SplitBlankLine(s, cur) ==
    IF s = <<>> THEN <<cur>>
    ELSE IF Len(s) >= 2 /\ s[1] = "\n" /\ s[2] = "\n"
         THEN <<cur>> \o SplitBlankLine(SubSeq(s, 3, Len(s)), <<>>)
         ELSE SplitBlankLine(Tail(s), Append(cur, Head(s)))

\* text.split('\n\n')
SplitParagraphs(s) == SplitBlankLine(s, <<>>)

RECURSIVE ReSplitAfterTerminal(_, _)
\* re.split(r'(?<=[.!?])\s+', s): cut at every whitespace run that follows a
\* terminal punctuation mark, dropping the run
ReSplitAfterTerminal(s, cur) ==
    IF s = <<>> THEN <<cur>>
    ELSE IF IsSpace(Head(s)) /\ cur # <<>> /\ IsTerminal(cur[Len(cur)])
         THEN <<cur>> \o ReSplitAfterTerminal(LStrip(s), <<>>)
         ELSE ReSplitAfterTerminal(Tail(s), Append(cur, Head(s)))

\* words[-n:] of a Python list
LastSlice(ws, n) ==
    IF n = 0 \/ n >= Len(ws) THEN ws ELSE SubSeq(ws, Len(ws) - n + 1, Len(ws))

-----------------------------------------------------------------------------
(* utils.py                                                                *)

\* count_tokens, the estimate the source itself defines (the tokenizer
\* library is not part of the repository)
count_tokens(s) == Len(s) \div 4

RECURSIVE StripAndDropEmpty(_)
StripAndDropEmpty(ss) ==
    IF ss = <<>> THEN <<>>
    ELSE IF Strip(Head(ss)) = <<>> THEN StripAndDropEmpty(Tail(ss))
    ELSE <<Strip(Head(ss))>> \o StripAndDropEmpty(Tail(ss))

split_sentences(s) == StripAndDropEmpty(ReSplitAfterTerminal(s, <<>>))

get_overlap_text(s, overlap_tokens) ==
    LET words == Words(s)
    IN  IF Len(words) <= overlap_tokens \div 2
        THEN s
        ELSE Join(LastSlice(words, overlap_tokens \div 2), <<" ">>) \o <<" ">>

\* the chunk dict with its chunk_id taken from the running token count
ChunkDictNumberedByTokens == [text |-> Strip(current_chunk),
                              tokens |-> current_tokens,
                              chunk_id |-> current_tokens]

\* the chunk dict appended at lines 50-54, 67-71 and 83-87
ChunkDict == [text |-> Strip(current_chunk),
              tokens |-> current_tokens,
              chunk_id |-> Len(chunks)]

\* lines 48-62 and 65-79: one unit (a sentence, or a paragraph followed by a
\* blank line) of unit_tokens tokens meets the buffer
AddUnit(unit, unit_tokens) ==
    IF current_tokens + unit_tokens > chunk_size /\ current_chunk # <<>>
    THEN LET overlap_text == get_overlap_text(current_chunk, overlap)
         IN  /\ chunks' = Append(chunks, ChunkDict)
             /\ current_chunk' = overlap_text \o unit
             /\ current_tokens' = count_tokens(overlap_text \o unit)
             /\ overlap_texts' = Append(overlap_texts, overlap_text)
    ELSE /\ current_chunk' = current_chunk \o unit
         /\ current_tokens' = current_tokens + unit_tokens
         /\ UNCHANGED <<chunks, overlap_texts>>

\* lines 39-44: a paragraph over the budget is split into sentences
ParagraphSplit ==
    /\ cpc = "para"
    /\ paragraphs # <<>>
    /\ count_tokens(Head(paragraphs)) > chunk_size
    /\ sentences' = split_sentences(Head(paragraphs))
    /\ paragraphs' = Tail(paragraphs)
    /\ cpc' = "sent"
    /\ UNCHANGED <<text, chunk_size, overlap, chunks, current_chunk,
                   current_tokens, overlap_texts>>
    /\ UNCHANGED <<auxVars, testerVars, scoreVars>>

\* lines 45-62: one iteration of the sentence loop
SentenceStep ==
    /\ cpc = "sent"
    /\ sentences # <<>>
    /\ AddUnit(Head(sentences), count_tokens(Head(sentences)))
    /\ sentences' = Tail(sentences)
    /\ UNCHANGED <<text, chunk_size, overlap, paragraphs, cpc>>
    /\ UNCHANGED <<auxVars, testerVars, scoreVars>>

\* line 45: the sentence loop is exhausted
SentencesDone ==
    /\ cpc = "sent"
    /\ sentences = <<>>
    /\ cpc' = "para"
    /\ UNCHANGED <<text, chunk_size, overlap, paragraphs, sentences, chunks,
                   current_chunk, current_tokens, overlap_texts>>
    /\ UNCHANGED <<auxVars, testerVars, scoreVars>>

\* lines 63-79: a paragraph within the budget
ParagraphStep ==
    /\ cpc = "para"
    /\ paragraphs # <<>>
    /\ count_tokens(Head(paragraphs)) <= chunk_size
    /\ AddUnit(Head(paragraphs) \o <<"\n", "\n">>, count_tokens(Head(paragraphs)))
    /\ paragraphs' = Tail(paragraphs)
    /\ UNCHANGED <<text, chunk_size, overlap, sentences, cpc>>
    /\ UNCHANGED <<auxVars, testerVars, scoreVars>>

\* the return without the test of line 82: the buffer is always appended
FinalChunkUntested ==
    /\ cpc = "para"
    /\ paragraphs = <<>>
    /\ chunks' = Append(chunks, [text |-> Strip(current_chunk),
                                 tokens |-> current_tokens,
                                 chunk_id |-> Len(chunks)])
    /\ cpc' = "done"
    /\ UNCHANGED <<text, chunk_size, overlap, paragraphs, sentences,
                   current_chunk, current_tokens, overlap_texts>>
    /\ UNCHANGED <<auxVars, testerVars, scoreVars>>

\* lines 81-89: the final chunk, and the return
FinalChunk ==
    /\ cpc = "para"
    /\ paragraphs = <<>>
    /\ chunks' = IF Strip(current_chunk) # <<>> THEN Append(chunks, ChunkDict)
                 ELSE chunks
    /\ cpc' = "done"
    /\ UNCHANGED <<text, chunk_size, overlap, paragraphs, sentences,
                   current_chunk, current_tokens, overlap_texts>>
    /\ UNCHANGED <<auxVars, testerVars, scoreVars>>

\* the input texts: up to MaxPieces pieces, each a sentence-ending word, a
\* plain word, a space or a newline
Pieces == {<<"a", "a", "a", ".">>, <<"b", "b", "b">>, <<" ">>, <<"\n">>}

RECURSIVE Flatten(_)
Flatten(ps) == IF ps = <<>> THEN <<>> ELSE Head(ps) \o Flatten(Tail(ps))

Texts == {Flatten(ps) : ps \in UNION {[1..n -> Pieces] : n \in 0..MaxPieces}}

\* lines 24-37: the call, up to the first iteration of the paragraph loop
ChunkInit ==
    /\ text \in Texts
    /\ chunk_size \in 1..MaxChunkSize
    /\ overlap \in 0..MaxOverlap
    /\ paragraphs = SplitParagraphs(text)
    /\ sentences = <<>>
    /\ chunks = <<>>
    /\ current_chunk = <<>>
    /\ current_tokens = 0
    /\ overlap_texts = <<>>
    /\ cpc = "para"

ChunkNext ==
    \/ ParagraphSplit
    \/ SentenceStep
    \/ SentencesDone
    \/ ParagraphStep
    \/ FinalChunk

-----------------------------------------------------------------------------
(* Exact arithmetic for the values the code keeps as floats.  A score is   *)
(* held as a fraction num/den of points until round() turns it into a      *)
(* count of hundredths.                                                    *)

Abs(x) == IF x < 0 THEN -x ELSE x

Max(a, b) == IF a >= b THEN a ELSE b

Min(a, b) == IF a <= b THEN a ELSE b

\* the integer nearest to num/den (den > 0), ties to the even one
RoundHalfEven(num, den) ==
    LET q == num \div den
        r == num % den
    IN  IF 2 * r < den THEN q
        ELSE IF 2 * r > den THEN q + 1
        ELSE IF q % 2 = 0 THEN q ELSE q + 1

\* round(num/den, 2), in hundredths
Round2(num, den) == RoundHalfEven(100 * num, den)

\* round(num/den, 3), in thousandths
Round3(num, den) == RoundHalfEven(1000 * num, den)

\* "high" if score < 70 else "medium" if score < 90 else "low", on the
\* score num/den before it is rounded
RiskLevel(num, den) ==
    IF num < 70 * den THEN "high"
    ELSE IF num < 90 * den THEN "medium"
    ELSE "low"

\* dict.get(key, default)
Get(d, key, default) == IF key \in DOMAIN d THEN d[key] ELSE default

RECURSIVE SeqSum(_)
SeqSum(ns) == IF ns = <<>> THEN 0 ELSE Head(ns) + SeqSum(Tail(ns))

RECURSIVE FlattenSeq(_)
FlattenSeq(ss) == IF ss = <<>> THEN <<>> ELSE Head(ss) \o FlattenSeq(Tail(ss))

\* the set of elements of a list
Range(f) == {f[i] : i \in DOMAIN f}

\* lst[:n]
Prefix(lst, n) == SubSeq(lst, 1, Min(n, Len(lst)))

-----------------------------------------------------------------------------
(* More string primitives.                                                 *)

LowerChar(c) == IF c = "A" THEN "a" ELSE IF c = "B" THEN "b" ELSE c

\* str.lower()
Lower(s) == [i \in 1..Len(s) |-> LowerChar(s[i])]

IsDigit(c) == c \in {"0", "1", "2", "3", "4", "5", "6", "7", "8", "9"}

IsUpper(c) == c \in {"A", "B"}

IsLower(c) == c \in {"a", "b"}

\* \w of the re module
IsWordChar(c) == IsDigit(c) \/ IsUpper(c) \/ IsLower(c) \/ c = "_"

\* p in s
IsSubstring(p, s) ==
    \E i \in 0..(Len(s) - Len(p)) : SubSeq(s, i + 1, i + Len(p)) = p

RECURSIVE ReSplitTerminals(_, _)
\* re.split(r'[.!?]+', s): cut at every run of terminal punctuation marks
ReSplitTerminals(s, cur) ==
    IF s = <<>> THEN <<cur>>
    ELSE IF IsTerminal(Head(s))
         THEN IF Len(s) >= 2 /\ IsTerminal(s[2])
              THEN ReSplitTerminals(Tail(s), cur)
              ELSE <<cur>> \o ReSplitTerminals(Tail(s), <<>>)
         ELSE ReSplitTerminals(Tail(s), Append(cur, Head(s)))

RECURSIVE RStripTerminals(_)
RStripTerminals(w) ==
    IF w # <<>> /\ IsTerminal(w[Len(w)])
    THEN RStripTerminals(SubSeq(w, 1, Len(w) - 1)) ELSE w

\* s[i:], 0-based
From(s, i) == SubSeq(s, i + 1, Len(s))

-----------------------------------------------------------------------------
(* utils.py: the signal extractors                                         *)

\* ENTITY_TYPES
ENTITY_TYPES ==
    [legal |-> {"PERSON", "ORG", "GPE", "LAW", "COURT", "JUDGE", "ATTORNEY"},
     personal |-> {"PERSON", "PHONE", "EMAIL", "SSN", "ADDRESS"},
     business |-> {"ORG", "MONEY", "PRODUCT", "EVENT"},
     temporal |-> {"DATE", "TIME", "DURATION"},
     jurisdictional |-> {"GPE", "LAW", "COURT"}]

\* the keys of the dict extract_entities_spacy builds, in insertion order
Categories == <<"legal", "personal", "business", "temporal", "jurisdictional">>

\* the recognizer: the statistical model is outside the repository; here it
\* tags the word "a" (in either case) as a PERSON and the word "b" as a DATE
NerLabel(w) ==
    IF Lower(RStripTerminals(w)) = <<"a">> THEN "PERSON"
    ELSE IF Lower(RStripTerminals(w)) = <<"b">> THEN "DATE"
    ELSE "O"

RECURSIVE WordSpans(_, _)
\* the words of s with their character offsets, s starting at offset pos
WordSpans(s, pos) ==
    IF s = <<>> THEN <<>>
    ELSE IF IsSpace(Head(s)) THEN WordSpans(Tail(s), pos + 1)
    ELSE LET n == CHOOSE k \in 1..Len(s) :
                      /\ \A j \in 1..k : ~IsSpace(s[j])
                      /\ (k = Len(s) \/ IsSpace(s[k + 1]))
         IN  <<[w |-> SubSeq(s, 1, n), start |-> pos]>>
                 \o WordSpans(From(s, n), pos + n)

\* doc.ents of nlp(s): lines 119-136
DocEnts(s) ==
    LET spans == WordSpans(s, 0)
        tagged == SelectSeq(spans, LAMBDA x : NerLabel(x.w) # "O")
    IN  [i \in 1..Len(tagged) |->
            [text |-> RStripTerminals(tagged[i].w),
             label |-> NerLabel(tagged[i].w),
             start |-> tagged[i].start,
             end |-> tagged[i].start + Len(RStripTerminals(tagged[i].w))]]

NoEntities == [c \in Range(Categories) |-> <<>>]

\* extract_entities_spacy; `fails` says that spacy raised, which the
\* function's own handler (lines 151-153) turns into the empty result
extract_entities_spacy(s, fails) ==
    IF fails THEN NoEntities
    ELSE [c \in Range(Categories) |->
             SelectSeq(DocEnts(s), LAMBDA e : e.label \in ENTITY_TYPES[c])]

\* one match of \b\d+\s+[A-Z][a-z]+\.?\s+\d+\b starting at offset i of s: its
\* length, or 0.  Every quantifier of the pattern can only take its longest
\* run, so the match is found without backtracking.
DigitRun(s) == CHOOSE k \in 0..Len(s) :
    (\A j \in 1..k : IsDigit(s[j])) /\ (k = Len(s) \/ ~IsDigit(s[k + 1]))

SpaceRun(s) == CHOOSE k \in 0..Len(s) :
    (\A j \in 1..k : IsSpace(s[j])) /\ (k = Len(s) \/ ~IsSpace(s[k + 1]))

LowerRun(s) == CHOOSE k \in 0..Len(s) :
    (\A j \in 1..k : IsLower(s[j])) /\ (k = Len(s) \/ ~IsLower(s[k + 1]))

\* the pattern's parts, each matched at offset j of s for a match that
\* started at offset i
CaseLastNumber(s, i, j) ==
    LET d == DigitRun(From(s, j))
    IN  IF d >= 1 /\ (j + d = Len(s) \/ ~IsWordChar(s[j + d + 1]))
        THEN j + d - i ELSE 0

CaseSecondGap(s, i, j) ==
    LET w == SpaceRun(From(s, j))
    IN  IF w >= 1 THEN CaseLastNumber(s, i, j + w) ELSE 0

CaseOptionalDot(s, i, j) ==
    IF j < Len(s) /\ s[j + 1] = "." THEN CaseSecondGap(s, i, j + 1)
    ELSE CaseSecondGap(s, i, j)

CaseReporterName(s, i, j) ==
    LET l == IF j < Len(s) /\ IsUpper(s[j + 1]) THEN LowerRun(From(s, j + 1))
             ELSE 0
    IN  IF l >= 1 THEN CaseOptionalDot(s, i, j + 1 + l) ELSE 0

CaseFirstGap(s, i, j) ==
    LET w == SpaceRun(From(s, j))
    IN  IF w >= 1 THEN CaseReporterName(s, i, j + w) ELSE 0

CaseCitationAt(s, i) ==
    LET d == DigitRun(From(s, i))
    IN  IF (i = 0 \/ ~IsWordChar(s[i])) /\ d >= 1
        THEN CaseFirstGap(s, i, i + d) ELSE 0

RECURSIVE CaseCitations(_, _)
\* re.finditer over the case citation pattern, from offset i: lines 163-171
CaseCitations(s, i) ==
    IF i >= Len(s) THEN <<>>
    ELSE LET n == CaseCitationAt(s, i)
         IN  IF n = 0 THEN CaseCitations(s, i + 1)
             ELSE <<[type |-> "case_citation",
                     text |-> SubSeq(s, i + 1, i + n),
                     start |-> i,
                     end |-> i + n]>> \o CaseCitations(s, i + n)

\* extract_legal_patterns.  The statute pattern (lines 174-182) needs the
\* letters U, S, C and the court pattern (lines 185-193) a court's name:
\* texts over the model's alphabet hold neither, so only case citations
\* are found in them.
extract_legal_patterns(s) == CaseCitations(s, 0)

\* calculate_similarity, as the fraction <<intersection, union>>; 0.0 is <<0, 1>>
calculate_similarity(text1, text2) ==
    LET words1 == Range(Words(Lower(text1)))
        words2 == Range(Words(Lower(text2)))
    IN  IF words1 \cup words2 = {} THEN <<0, 1>>
        ELSE <<Cardinality(words1 \cap words2), Cardinality(words1 \cup words2)>>

\* extract_unique_phrases: the set of the min_length-grams, each joined by ' '
extract_unique_phrases(s, min_length) ==
    LET words == Words(Lower(s))
    IN  {Join(SubSeq(words, i, i + min_length - 1), <<" ">>) :
            i \in 1..(Len(words) - min_length + 1)}

-----------------------------------------------------------------------------
(* config.py and ollama_client.py                                          *)

\* SCORING_WEIGHTS as the repository ships it, in hundredths
SCORING_WEIGHTS ==
    [reconstruction_resistance |->
        [direct_identifier |-> 30,
         pattern_matching |-> 25,
         contextual_reconstruction |-> 20,
         cross_reference |-> 15,
         linguistic_fingerprint |-> 10],
     strategic_value |->
        [legal_principle_retention |-> 40,
         educational_value |-> 30,
         business_intelligence |-> 20,
         procedural_guidance |-> 10],
     overall |->
        [reconstruction_resistance |-> 60,
         strategic_value_preservation |-> 40]]

\* the keys of SCORING_WEIGHTS["reconstruction_resistance"], which are also
\* the keys run_all_tests gives `results`, in insertion order
ProbeNames == <<"direct_identifier", "pattern_matching",
                "contextual_reconstruction", "cross_reference",
                "linguistic_fingerprint">>

\* OllamaClient.generate_text on what requests.post did: it raised a Timeout
\* or a ConnectionError, it answered with a status other than 200, or it
\* answered 200 with a response
generate_text(post) ==
    IF post.kind \in {"timeout", "refused"}
    THEN [success |-> FALSE, error |-> <<"Request failed", post.kind>>]
    ELSE IF post.status # 200
    THEN [success |-> FALSE, error |-> <<"HTTP", post.status>>]
    ELSE [success |-> TRUE,
          text |-> post.response,
          done |-> TRUE,
          total_duration |-> post.total_duration,
          load_duration |-> 0,
          prompt_eval_count |-> 0,
          eval_count |-> 0]

\* OllamaClient.test_reconstruction; processing_time is in nanoseconds here
test_reconstruction(post) ==
    LET result == generate_text(post)
    IN  IF result.success
        THEN [success |-> TRUE,
              reconstruction_attempt |-> result.text,
              processing_time |-> Get(result, "total_duration", 0)]
        ELSE [success |-> FALSE, error |-> result.error]

-----------------------------------------------------------------------------
(* testing_engine.py: the probes.  A probe's body either returns its       *)
(* result dict or raises; raising is the value [raised |-> reason].        *)

Raised(r) == "raised" \in DOMAIN r

\* try: body  except Exception as e: return {"score": 0, "error": ...}
ExceptScoreZero(body, message) ==
    IF Raised(body) THEN [score |-> 0, error |-> <<message, body.raised>>]
    ELSE body

\* lines 81-110
DirectIdentifiersBody(original, anonymized, fails) ==
    LET original_entities == extract_entities_spacy(original, fails)
        all_entities ==
            FlattenSeq([i \in 1..Len(Categories) |->
                [j \in 1..Len(original_entities[Categories[i]]) |->
                    Lower(original_entities[Categories[i]][j].text)]])
        anonymized_lower == Lower(anonymized)
        matches_found ==
            SelectSeq(all_entities, LAMBDA e : IsSubstring(e, anonymized_lower))
        num == IF all_entities # <<>>
               THEN Max(0, 100 * (Len(all_entities) - Len(matches_found)))
               ELSE 100
        den == IF all_entities # <<>> THEN Len(all_entities) ELSE 1
    IN  [score |-> Round2(num, den),
         total_entities |-> Len(all_entities),
         matches_found |-> Len(matches_found),
         leaked_entities |-> Prefix(matches_found, 10),
         risk_level |-> RiskLevel(num, den)]

test_direct_identifiers(original, anonymized, fails) ==
    ExceptScoreZero(DirectIdentifiersBody(original, anonymized, fails),
                    "Direct identifier test failed")

\* lines 123-159
PatternMatchingBody(original, anonymized) ==
    LET original_patterns == extract_legal_patterns(original)
        anonymized_patterns == extract_legal_patterns(anonymized)
        preserved_patterns ==
            FlattenSeq([i \in 1..Len(original_patterns) |->
                LET same == SelectSeq(anonymized_patterns, LAMBDA p :
                                Lower(original_patterns[i].text) = Lower(p.text))
                IN  [j \in 1..Len(same) |-> original_patterns[i].text]])
        original_phrases == extract_unique_phrases(original, 4)
        anonymized_phrases == extract_unique_phrases(anonymized, 4)
        preserved_phrases == original_phrases \cap anonymized_phrases
        total_patterns == Len(original_patterns) + Cardinality(original_phrases)
        total_preserved == Len(preserved_patterns) + Cardinality(preserved_phrases)
        num == IF total_patterns > 0
               THEN Max(0, 100 * (total_patterns - total_preserved))
               ELSE 100
        den == IF total_patterns > 0 THEN total_patterns ELSE 1
    IN  [score |-> Round2(num, den),
         total_patterns |-> total_patterns,
         preserved_patterns |-> total_preserved,
         preserved_legal_patterns |-> Prefix(preserved_patterns, 5),
         preserved_phrases |->
            IF Cardinality(preserved_phrases) <= 5 THEN preserved_phrases
            ELSE CHOOSE S \in SUBSET preserved_phrases : Cardinality(S) = 5,
         risk_level |-> RiskLevel(num, den)]

test_pattern_matching(original, anonymized) ==
    ExceptScoreZero(PatternMatchingBody(original, anonymized),
                    "Pattern matching test failed")

\* the two vocabularies of lines 184-196
confidence_indicators ==
    {"confident", "certain", "likely", "probably", "appears to be",
     "suggests", "indicates", "evidence of", "based on", "clearly"}

specific_details ==
    {"case name", "court", "judge", "attorney", "company", "date",
     "location", "plaintiff", "defendant", "parties"}

\* lines 172-216.  A response text is held as the set of the phrases of the
\* two vocabularies that occur in it, and its length.
ContextualReconstructionBody(post) ==
    LET reconstruction_result == test_reconstruction(post)
    IN  IF ~reconstruction_result.success
        THEN [score |-> 0, error |-> reconstruction_result.error]
        ELSE
        LET reconstruction_text == reconstruction_result.reconstruction_attempt
            confidence_count ==
                Cardinality(confidence_indicators \cap reconstruction_text.mentions)
            details_count ==
                Cardinality(specific_details \cap reconstruction_text.mentions)
            max_confidence == Cardinality(confidence_indicators)
            max_details == Cardinality(specific_details)
            \* 100 - (cc/max_c)*50 - (dc/max_d)*50 over the common denominator
            den == max_confidence * max_details
            num == Max(0, 100 * den - 50 * confidence_count * max_details
                                   - 50 * details_count * max_confidence)
        IN  [score |-> Round2(num, den),
             reconstruction_attempt |->
                [text |-> reconstruction_text.mentions,
                 truncated |-> reconstruction_text.length > 500],
             confidence_indicators_found |-> confidence_count,
             specific_details_mentioned |-> details_count,
             processing_time |-> reconstruction_result.processing_time,
             risk_level |-> RiskLevel(num, den)]

test_contextual_reconstruction(post) ==
    ExceptScoreZero(ContextualReconstructionBody(post),
                    "Contextual reconstruction test failed")

\* a/b > c/d for fractions with positive denominators
FracGreater(x, y) == x[1] * y[2] > y[1] * x[2]

\* max(similarities, key=...) if it took the first element
first_similarity(sims, best) == best

RECURSIVE FirstMax(_, _)
\* max(similarities, key=...): the first element with the largest similarity
FirstMax(sims, best) ==
    IF sims = <<>> THEN best
    ELSE IF FracGreater(Head(sims).similarity, best.similarity)
         THEN FirstMax(Tail(sims), Head(sims))
         ELSE FirstMax(Tail(sims), best)

\* lines 229-259
CrossReferenceBody(anonymized, corpus) ==
    IF corpus = <<>>
    THEN [score |-> 10000,
          message |-> "No corpus available for cross-reference testing",
          risk_level |-> "low"]
    ELSE
    LET similarities ==
            [i \in 1..Len(corpus) |->
                [filename |-> corpus[i].filename,
                 similarity |-> calculate_similarity(anonymized, corpus[i].text)]]
        max_similarity == FirstMax(Tail(similarities), Head(similarities))
        den == max_similarity.similarity[2]
        num == Max(0, 100 * (den - max_similarity.similarity[1]))
    IN  [score |-> Round2(num, den),
         corpus_size |-> Len(corpus),
         highest_similarity |->
            Round3(max_similarity.similarity[1], max_similarity.similarity[2]),
         similar_document |-> max_similarity.filename,
         all_similarities |->
            [i \in 1..Len(similarities) |->
                <<similarities[i].filename,
                  Round3(similarities[i].similarity[1],
                         similarities[i].similarity[2])>>],
         risk_level |-> RiskLevel(num, den)]

test_cross_reference(anonymized, corpus) ==
    ExceptScoreZero(CrossReferenceBody(anonymized, corpus),
                    "Cross-reference test failed")

\* the sum of len(s.split()) over the pieces of re.split(r'[.!?]+', s)
SentenceWords(s) ==
    LET pieces == ReSplitTerminals(s, <<>>)
    IN  SeqSum([i \in 1..Len(pieces) |-> Len(Words(pieces[i]))])

\* lines 272-305.  The averages are sum/count fractions: so/no for the
\* original, sa/na for the anonymized text.
LinguisticFingerprintingBody(original, anonymized) ==
    LET so == SentenceWords(original)
        no == Len(ReSplitTerminals(original, <<>>))
        sa == SentenceWords(anonymized)
        na == Len(ReSplitTerminals(anonymized, <<>>))
        original_words == Range(Words(Lower(original)))
        anonymized_words == Range(Words(Lower(anonymized)))
        original_phrases == extract_unique_phrases(original, 3)
        anonymized_phrases == extract_unique_phrases(anonymized, 3)
        vi == Cardinality(original_words \cap anonymized_words)
        vo == Cardinality(original_words)
        pi == Cardinality(original_phrases \cap anonymized_phrases)
        po == Cardinality(original_phrases)
    IN  IF vo = 0 \/ po = 0 \/ so = 0
        THEN [raised |-> "division by zero"]
        ELSE
        LET \* structure_similarity = 1 - |so/no - sa/na| / (so/no) = sn/sd
            sd == na * so
            sn == sd - Abs(so * na - sa * no)
            \* 100 - (vocab_overlap*30 + phrase_overlap*40 + structure*30)
            den == vo * po * sd
            num == Max(0, 100 * den - (30 * vi * po * sd + 40 * pi * vo * sd
                                       + 30 * sn * vo * po))
        IN  [score |-> Round2(num, den),
             vocabulary_overlap |-> Round3(vi, vo),
             phrase_overlap |-> Round3(pi, po),
             structure_similarity |-> Round3(sn, sd),
             original_avg_sentence_length |-> RoundHalfEven(10 * so, no),
             anonymized_avg_sentence_length |-> RoundHalfEven(10 * sa, na),
             risk_level |-> RiskLevel(num, den)]

\* the probe without its except clause (lines 307-311 left out)
linguistic_fingerprinting_unhandled(original, anonymized) ==
    LinguisticFingerprintingBody(original, anonymized)

test_linguistic_fingerprinting(original, anonymized) ==
    ExceptScoreZero(LinguisticFingerprintingBody(original, anonymized),
                    "Linguistic fingerprinting test failed")

RECURSIVE WeightedSum(_, _, _)
\* the loop of calculate_resistance_score over the first n weights
WeightedSum(test_results, weights, n) ==
    IF n = 0 THEN 0
    ELSE LET test_name == ProbeNames[n]
             test_result == Get(test_results, test_name, <<>>)
             score == Get(test_result, "score", 0)
         IN  WeightedSum(test_results, weights, n - 1) + score * weights[test_name]

\* the weighted sum cut to hundredths instead of rounded to them
resistance_score_truncated(test_results) ==
    WeightedSum(test_results, scoring_weights.reconstruction_resistance,
                Len(ProbeNames)) \div 100

\* ReconstructionTester.calculate_resistance_score: scores in hundredths
\* times weights in hundredths, rounded to hundredths
calculate_resistance_score(test_results) ==
    RoundHalfEven(WeightedSum(test_results,
                              scoring_weights.reconstruction_resistance,
                              Len(ProbeNames)), 100)

\* the names of test_results, in insertion order
ResultNames(test_results) ==
    SelectSeq(ProbeNames, LAMBDA n : n \in DOMAIN test_results)

\* ReconstructionTester.assess_risk_level
assess_risk_level(test_results) ==
    LET level(n) == Get(test_results[n], "risk_level", "unknown")
        names == ResultNames(test_results)
        high_risk_factors == SelectSeq(names, LAMBDA n : level(n) = "high")
        medium_risk_factors == SelectSeq(names, LAMBDA n : level(n) = "medium")
        low_risk_factors ==
            SelectSeq(names, LAMBDA n : level(n) \notin {"high", "medium"})
    IN  [high_risk_factors |-> high_risk_factors,
         medium_risk_factors |-> medium_risk_factors,
         low_risk_factors |-> low_risk_factors,
         overall_risk |-> IF high_risk_factors # <<>> THEN "high"
                          ELSE IF medium_risk_factors # <<>> THEN "medium"
                          ELSE "low"]

\* ReconstructionTester.generate_recommendations
generate_recommendations(test_results) ==
    LET below80(n) == Get(Get(test_results, n, <<>>), "score", 10000) < 8000
        recommendations ==
            (IF below80("direct_identifier")
             THEN <<"Consider using more aggressive entity replacement strategy",
                    "Review entity extraction to catch missed identifiers">>
             ELSE <<>>)
            \o (IF below80("pattern_matching")
                THEN <<"Replace or generalize unique legal patterns",
                       "Consider breaking up distinctive phrase structures">>
                ELSE <<>>)
            \o (IF below80("contextual_reconstruction")
                THEN <<"Reduce contextual clues that enable reconstruction",
                       "Consider more abstract anonymization approach">>
                ELSE <<>>)
            \o (IF below80("cross_reference")
                THEN <<"Ensure sufficient differentiation from similar documents",
                       "Consider additional randomization elements">>
                ELSE <<>>)
            \o (IF below80("linguistic_fingerprint")
                THEN <<"Vary sentence structure and vocabulary",
                       "Consider style transformation in addition to anonymization">>
                ELSE <<>>)
    IN  IF recommendations = <<>>
        THEN <<"Anonymization quality is good - no major improvements needed">>
        ELSE recommendations

-----------------------------------------------------------------------------
(* ReconstructionTester: add_to_corpus and run_all_tests, one step per     *)
(* probe.                                                                   *)

\* the words the texts of a run are made of
WordForms == {<<"A">>, <<"b", ".">>}

\* the texts of up to MaxWords words, single spaces between them
RunTexts ==
    {Join(ws, <<" ">>) : ws \in UNION {[1..n -> WordForms] : n \in 0..MaxWords}}

\* what DocumentProcessor.process_file returns for a file it could read (the
\* keys add_to_corpus reads), and for one it could not
DocumentData(filename, t) ==
    [success |-> TRUE,
     filename |-> filename,
     text |-> t,
     entities |-> extract_entities_spacy(t, FALSE),
     legal_patterns |-> extract_legal_patterns(t)]

Documents ==
    {DocumentData("one.txt", <<"a">>),
     DocumentData("two.txt", <<"a", " ", "b", ".">>),
     DocumentData("three.txt", <<"a", " ", "b", ".", " ", "c">>),
     [success |-> FALSE, error |-> "No text could be extracted from the document"]}

\* what requests.post can do in test_reconstruction's call of generate_text
Posts ==
    {[kind |-> "timeout"],
     [kind |-> "refused"],
     [kind |-> "answer", status |-> 500],
     [kind |-> "answer", status |-> 200, total_duration |-> 0,
      response |-> [mentions |-> {}, length |-> 40]],
     [kind |-> "answer", status |-> 200, total_duration |-> 0,
      response |-> [mentions |-> {"likely", "court", "judge"}, length |-> 400]],
     [kind |-> "answer", status |-> 200, total_duration |-> 0,
      response |-> [mentions |-> confidence_indicators \cup specific_details,
                    length |-> 900]]}

EmptyDict == <<>>

NoReport == [success |-> FALSE, error |-> "not run"]

\* lines 24-29: the dict add_to_corpus appends
CorpusEntry(document_data) ==
    [filename |-> document_data.filename,
     text |-> document_data.text,
     entities |-> document_data.entities,
     legal_patterns |-> document_data.legal_patterns]

\* add_to_corpus if it skipped a document the corpus already holds
add_to_corpus_deduplicated(document_data) ==
    /\ document_corpus' =
           IF /\ Get(document_data, "success", FALSE)
              /\ \A i \in 1..Len(document_corpus) :
                    document_corpus[i] # CorpusEntry(document_data)
           THEN Append(document_corpus, CorpusEntry(document_data))
           ELSE document_corpus
    /\ added_documents' = Append(added_documents, document_data)

\* lines 21-29
add_to_corpus(document_data) ==
    /\ document_corpus' =
           IF Get(document_data, "success", FALSE)
           THEN Append(document_corpus, CorpusEntry(document_data))
           ELSE document_corpus
    /\ added_documents' = Append(added_documents, document_data)

\* main.py 96-104: a document is uploaded between two runs of the battery
AddToCorpus ==
    /\ pc = "idle"
    /\ Len(added_documents) < MaxCorpus
    /\ \E document_data \in Documents : add_to_corpus(document_data)
    /\ UNCHANGED <<original_text, anonymized_text, results, report,
                   ner_failed, service_outcome, pc>>
    /\ UNCHANGED <<auxVars, chunkVars, scoreVars, xrefVars>>

\* main.py 96-104 in another session: the upload can fall anywhere in a
\* running test_cross_reference
SessionAddToCorpus ==
    /\ Len(added_documents) < MaxAdds
    /\ \E document_data \in Documents : add_to_corpus(document_data)
    /\ UNCHANGED <<original_text, anonymized_text, results, report,
                   ner_failed, service_outcome, pc>>
    /\ UNCHANGED <<auxVars, chunkVars, scoreVars, xrefVars>>

\* lines 31-36: the call
StartRun ==
    /\ pc = "idle"
    /\ original_text' \in RunTexts
    /\ anonymized_text' \in RunTexts
    /\ results' = EmptyDict
    /\ report' = NoReport
    /\ ner_failed' = FALSE
    /\ service_outcome' = <<"none">>
    /\ pc' = "direct"
    /\ UNCHANGED document_corpus
    /\ UNCHANGED <<auxVars, chunkVars, scoreVars, added_documents, xrefVars>>

\* results[name] = <probe>, or the handler of lines 70-74 when the probe raised
ProbeReturns(name, r, next) ==
    IF Raised(r)
    THEN /\ report' = [success |-> FALSE, error |-> <<"Testing failed", r.raised>>]
         /\ pc' = "done"
         /\ UNCHANGED results
    ELSE /\ results' = results @@ (name :> r)
         /\ pc' = next
         /\ UNCHANGED report

\* line 40
RunDirectIdentifiers ==
    /\ pc = "direct"
    /\ \E fails \in BOOLEAN :
          /\ ProbeReturns("direct_identifier",
                 test_direct_identifiers(original_text, anonymized_text, fails),
                 "pattern")
          /\ ner_failed' = fails
    /\ UNCHANGED <<document_corpus, original_text, anonymized_text, service_outcome>>
    /\ UNCHANGED <<auxVars, chunkVars, scoreVars, added_documents, xrefVars>>

\* line 44
RunPatternMatching ==
    /\ pc = "pattern"
    /\ ProbeReturns("pattern_matching",
           test_pattern_matching(original_text, anonymized_text), "contextual")
    /\ UNCHANGED <<document_corpus, original_text, anonymized_text, ner_failed,
                   service_outcome>>
    /\ UNCHANGED <<auxVars, chunkVars, scoreVars, added_documents, xrefVars>>

\* line 48
RunContextualReconstruction ==
    /\ pc = "contextual"
    /\ \E post \in Posts :
          /\ ProbeReturns("contextual_reconstruction",
                 test_contextual_reconstruction(post), "cross")
          /\ service_outcome' =
                 IF post.kind = "answer" THEN <<"answer", post.status>>
                 ELSE <<post.kind>>
    /\ UNCHANGED <<document_corpus, original_text, anonymized_text, ner_failed>>
    /\ UNCHANGED <<auxVars, chunkVars, scoreVars, added_documents, xrefVars>>

\* line 52
RunCrossReference ==
    /\ pc = "cross"
    /\ ProbeReturns("cross_reference",
           test_cross_reference(anonymized_text, document_corpus), "linguistic")
    /\ UNCHANGED <<document_corpus, original_text, anonymized_text, ner_failed,
                   service_outcome>>
    /\ UNCHANGED <<auxVars, chunkVars, scoreVars, added_documents, xrefVars>>

\* line 56
RunLinguisticFingerprinting ==
    /\ pc = "linguistic"
    /\ ProbeReturns("linguistic_fingerprint",
           test_linguistic_fingerprinting(original_text, anonymized_text),
           "aggregate")
    /\ UNCHANGED <<document_corpus, original_text, anonymized_text, ner_failed,
                   service_outcome>>
    /\ UNCHANGED <<auxVars, chunkVars, scoreVars, added_documents, xrefVars>>

\* lines 58-68
ReturnReport ==
    /\ pc = "aggregate"
    /\ report' = [success |-> TRUE,
                  strategy |-> "strategic",
                  test_results |-> results,
                  resistance_score |-> calculate_resistance_score(results),
                  risk_assessment |-> assess_risk_level(results),
                  recommendations |-> generate_recommendations(results)]
    /\ pc' = "done"
    /\ UNCHANGED <<document_corpus, original_text, anonymized_text, results,
                   ner_failed, service_outcome>>
    /\ UNCHANGED <<auxVars, chunkVars, scoreVars, added_documents, xrefVars>>

\* the caller has taken the report: the tester keeps its corpus only
Returned ==
    /\ pc = "done"
    /\ original_text' = <<>>
    /\ anonymized_text' = <<>>
    /\ results' = EmptyDict
    /\ report' = NoReport
    /\ ner_failed' = FALSE
    /\ service_outcome' = <<"none">>
    /\ pc' = "idle"
    /\ UNCHANGED document_corpus
    /\ UNCHANGED <<auxVars, chunkVars, scoreVars, added_documents, xrefVars>>

\* lines 245-259: what test_cross_reference returns once its loop is over,
\* from the list the loop built and len(self.document_corpus) as it is then
CrossReferenceReport(sims, corpus_len) ==
    LET max_similarity == FirstMax(Tail(sims), Head(sims))
        den == max_similarity.similarity[2]
        num == Max(0, 100 * (den - max_similarity.similarity[1]))
    IN  [score |-> Round2(num, den),
         corpus_size |-> corpus_len,
         highest_similarity |->
            Round3(max_similarity.similarity[1], max_similarity.similarity[2]),
         similar_document |-> max_similarity.filename,
         all_similarities |->
            [i \in 1..Len(sims) |->
                <<sims[i].filename,
                  Round3(sims[i].similarity[1], sims[i].similarity[2])>>],
         risk_level |-> RiskLevel(num, den)]

\* test_cross_reference running in a session of its own, one step per visit
\* of self.document_corpus, while other sessions call add_to_corpus on the
\* tester they share (main.py 36-45: st.cache_resource).
\* lines 229-237: the call, and the test of the corpus
CrossReferenceCall ==
    /\ xpc = "idle"
    /\ xref_text' \in RunTexts
    /\ corpus_at_call' = document_corpus
    /\ IF document_corpus = <<>>
       THEN /\ xref_result' =
                  [score |-> 10000,
                   message |-> "No corpus available for cross-reference testing",
                   risk_level |-> "low"]
            /\ xpc' = "returned"
       ELSE /\ xref_result' = EmptyDict
            /\ xpc' = "loop"
    /\ xref_similarities' = <<>>
    /\ xref_next' = 0
    /\ UNCHANGED <<document_corpus, original_text, anonymized_text, results,
                   report, ner_failed, service_outcome, pc, added_documents>>
    /\ UNCHANGED <<auxVars, chunkVars, scoreVars>>

\* lines 238-243: one iteration; the list iterator reads the list as it is now
CrossReferenceCompare ==
    /\ xpc = "loop"
    /\ xref_next < Len(document_corpus)
    /\ LET doc == document_corpus[xref_next + 1]
       IN  xref_similarities' =
               Append(xref_similarities,
                      [filename |-> doc.filename,
                       similarity |-> calculate_similarity(xref_text, doc.text)])
    /\ xref_next' = xref_next + 1
    /\ UNCHANGED <<xref_text, corpus_at_call, xref_result, xpc>>
    /\ UNCHANGED <<document_corpus, original_text, anonymized_text, results,
                   report, ner_failed, service_outcome, pc, added_documents>>
    /\ UNCHANGED <<auxVars, chunkVars, scoreVars>>

\* line 238: the iterator is exhausted
CrossReferenceLoopEnd ==
    /\ xpc = "loop"
    /\ xref_next >= Len(document_corpus)
    /\ xpc' = "after"
    /\ UNCHANGED <<xref_text, corpus_at_call, xref_similarities, xref_next,
                   xref_result>>
    /\ UNCHANGED <<document_corpus, original_text, anonymized_text, results,
                   report, ner_failed, service_outcome, pc, added_documents>>
    /\ UNCHANGED <<auxVars, chunkVars, scoreVars>>

\* lines 245-259
CrossReferenceReturn ==
    /\ xpc = "after"
    /\ xref_result' =
          CrossReferenceReport(xref_similarities, Len(document_corpus))
    /\ xpc' = "returned"
    /\ UNCHANGED <<xref_text, corpus_at_call, xref_similarities, xref_next>>
    /\ UNCHANGED <<document_corpus, original_text, anonymized_text, results,
                   report, ner_failed, service_outcome, pc, added_documents>>
    /\ UNCHANGED <<auxVars, chunkVars, scoreVars>>

\* lines 17-19: the tester as constructed
TesterInit ==
    /\ document_corpus = <<>>
    /\ original_text = <<>>
    /\ anonymized_text = <<>>
    /\ results = EmptyDict
    /\ report = NoReport
    /\ ner_failed = FALSE
    /\ service_outcome = <<"none">>
    /\ pc = "idle"
    /\ added_documents = <<>>
    /\ xref_text = <<>>
    /\ corpus_at_call = <<>>
    /\ xref_similarities = <<>>
    /\ xref_next = 0
    /\ xref_result = EmptyDict
    /\ xpc = "idle"

\* chunk_text is not running
ChunkIdle ==
    /\ text = <<>>
    /\ chunk_size = 1
    /\ overlap = 0
    /\ paragraphs = <<>>
    /\ sentences = <<>>
    /\ chunks = <<>>
    /\ current_chunk = <<>>
    /\ current_tokens = 0
    /\ overlap_texts = <<>>
    /\ cpc = "done"

-----------------------------------------------------------------------------
(* config.py as a deployment has it, and ScoringSystem.                    *)

\* the probe scores the scorers are handed, in hundredths
ScoreSamples == {0, 3333, 6667, 8750, 10000}

\* SCORING_WEIGHTS as shipped, and with one weight of one set edited
WeightConfigs ==
    {SCORING_WEIGHTS,
     [SCORING_WEIGHTS EXCEPT !.reconstruction_resistance.direct_identifier = 40],
     [SCORING_WEIGHTS EXCEPT !.strategic_value.educational_value = 20],
     [SCORING_WEIGHTS EXCEPT !.overall.reconstruction_resistance = 50]}

\* ScoringSystem.calculate_reconstruction_resistance_score: scores in
\* hundredths times weights in hundredths, not rounded, so the value is a
\* count of ten-thousandths
calculate_reconstruction_resistance_score(test_results) ==
    WeightedSum(test_results, self_weights.reconstruction_resistance,
                Len(ProbeNames))

\* SCORE_THRESHOLDS, in points
SCORE_THRESHOLDS ==
    [excellent |-> 90, good |-> 80, acceptable |-> 70, poor |-> 60, failed |-> 0]

\* the locals of the scorer's calls that ScoringSystem.__init__ leaves alone
ScorerCallVars == <<strategic_value_results, overall_result, quality_score,
                    quality_result>>

\* ScoringSystem.__init__
ScoringSystemInit ==
    /\ spc = "new"
    /\ self_weights' = scoring_weights
    /\ self_thresholds' = SCORE_THRESHOLDS
    /\ spc' = "ready"
    /\ UNCHANGED <<scoring_weights, reconstruction_results, tester_resistance,
                   scorer_resistance>>
    /\ UNCHANGED ScorerCallVars
    /\ UNCHANGED <<auxVars, chunkVars, testerVars>>

\* the same probe results handed to the tester's and to the scorer's
\* calculation; a probe may be missing from them
CalculateResistance ==
    /\ spc = "ready"
    /\ \E present \in SUBSET Range(ProbeNames) :
          \E scores \in [present -> ScoreSamples] :
             LET test_results == [n \in present |-> [score |-> scores[n]]]
             IN  /\ reconstruction_results' = test_results
                 /\ tester_resistance' = calculate_resistance_score(test_results)
                 /\ scorer_resistance' =
                        calculate_reconstruction_resistance_score(test_results)
    /\ spc' = "scored"
    /\ UNCHANGED <<scoring_weights, self_weights, self_thresholds>>
    /\ UNCHANGED ScorerCallVars
    /\ UNCHANGED <<auxVars, chunkVars, testerVars>>

\* the lookup with "poor" as its lowest level
quality_level_without_failed(num, den) ==
    [level |-> IF num >= self_thresholds.excellent * den THEN "excellent"
               ELSE IF num >= self_thresholds.good * den THEN "good"
               ELSE IF num >= self_thresholds.acceptable * den THEN "acceptable"
               ELSE "poor"]

\* ScoringSystem.get_quality_level of the score num/den points
get_quality_level(num, den) ==
    IF num >= self_thresholds.excellent * den
    THEN [level |-> "excellent",
          description |-> "Production ready",
          color |-> "green",
          recommendation |-> "Document is ready for use"]
    ELSE IF num >= self_thresholds.good * den
    THEN [level |-> "good",
          description |-> "Minor improvements needed",
          color |-> "lightgreen",
          recommendation |-> "Consider minor refinements"]
    ELSE IF num >= self_thresholds.acceptable * den
    THEN [level |-> "acceptable",
          description |-> "Requires review",
          color |-> "yellow",
          recommendation |-> "Review and improve before use"]
    ELSE IF num >= self_thresholds.poor * den
    THEN [level |-> "poor",
          description |-> "Significant issues",
          color |-> "orange",
          recommendation |-> "Significant improvements required"]
    ELSE [level |-> "failed",
          description |-> "Do not use",
          color |-> "red",
          recommendation |-> "Do not use - major security issues"]

\* the overall score with the strategic value left out of the sum
overall_score_without_strategic(test_results, strategic_results) ==
    LET resistance_score == calculate_reconstruction_resistance_score(test_results)
        w == self_weights.overall.reconstruction_resistance
    IN  [success |-> TRUE,
         overall_score |-> RoundHalfEven(resistance_score * w, 10000),
         reconstruction_resistance_score |-> RoundHalfEven(resistance_score, 100),
         strategic_value_score |->
            RoundHalfEven(Get(strategic_results, "strategic_value", 0), 100),
         quality_level |-> get_quality_level(resistance_score * w, 1000000)]

\* ScoringSystem.calculate_overall_score, lines 23-57.  The resistance and
\* the strategic score are counts of ten-thousandths, a weight is a count
\* of hundredths, so their products are counts of millionths; round(x, 2)
\* gives hundredths.  The handler of lines 59-63 is for arguments that are
\* not dicts.
calculate_overall_score(test_results, strategic_results) ==
    LET resistance_score == calculate_reconstruction_resistance_score(test_results)
        strategic_score == Get(strategic_results, "strategic_value", 0)
        w_r == self_weights.overall.reconstruction_resistance
        w_s == self_weights.overall.strategic_value_preservation
        overall_score == resistance_score * w_r + strategic_score * w_s
        quality_level == get_quality_level(overall_score, 1000000)
    IN  [success |-> TRUE,
         overall_score |-> RoundHalfEven(overall_score, 10000),
         reconstruction_resistance_score |-> RoundHalfEven(resistance_score, 100),
         strategic_value_score |-> RoundHalfEven(strategic_score, 100),
         quality_level |-> quality_level,
         score_breakdown |->
            [reconstruction_resistance |->
                [score |-> RoundHalfEven(resistance_score, 100),
                 weight |-> w_r,
                 contribution |-> RoundHalfEven(resistance_score * w_r, 10000)],
             strategic_value |->
                [score |-> RoundHalfEven(strategic_score, 100),
                 weight |-> w_s,
                 contribution |-> RoundHalfEven(strategic_score * w_s, 10000)]]]

\* the strategic value scores handed to calculate_overall_score, in
\* ten-thousandths of a point: 0, 0.01, 74.99, 75 and 100
StrategicSamples == {0, 100, 749900, 750000, 1000000}

\* main.py lines 407-410: the probe results of the last scoring and a
\* strategic value; the key may be missing from the dict
CalculateOverallScore ==
    /\ spc = "scored"
    /\ \E strategic_results \in
              {<<>>} \cup {[strategic_value |-> v] : v \in StrategicSamples} :
          /\ strategic_value_results' = strategic_results
          /\ overall_result' =
                 calculate_overall_score(reconstruction_results, strategic_results)
    /\ spc' = "overall"
    /\ UNCHANGED <<scoring_weights, self_weights, self_thresholds,
                   reconstruction_results, tester_resistance, scorer_resistance,
                   quality_score, quality_result>>
    /\ UNCHANGED <<auxVars, chunkVars, testerVars>>

\* the scores get_quality_level is called with directly, in points
QualityScores == {0, 55, 59, 60, 69, 70, 79, 80, 89, 90, 95, 100}

\* a direct call of get_quality_level
GetQualityLevel ==
    /\ spc = "ready"
    /\ \E score \in QualityScores :
          /\ quality_score' = score
          /\ quality_result' = get_quality_level(score, 1)
    /\ spc' = "leveled"
    /\ UNCHANGED <<scoring_weights, self_weights, self_thresholds,
                   reconstruction_results, tester_resistance, scorer_resistance,
                   strategic_value_results, overall_result>>
    /\ UNCHANGED <<auxVars, chunkVars, testerVars>>

\* no scorer is constructed; the configuration is the one given
ScorerNew ==
    /\ self_weights = <<>>
    /\ reconstruction_results = <<>>
    /\ tester_resistance = 0
    /\ scorer_resistance = 0
    /\ self_thresholds = <<>>
    /\ strategic_value_results = <<>>
    /\ overall_result = <<>>
    /\ quality_score = 0
    /\ quality_result = <<>>
    /\ spc = "new"

ShippedConfig == scoring_weights = SCORING_WEIGHTS

-----------------------------------------------------------------------------
(* document_processor.py                                                   *)

DOCUMENT_LIMITS ==
    [max_file_size_mb |-> 50,
     max_word_count |-> 50000,
     chunk_size_tokens |-> 4000,
     chunk_overlap_tokens |-> 200,
     max_batch_files |-> 10]

\* utils.py 197-202
validate_file_size(file_size) ==
    file_size <= DOCUMENT_LIMITS.max_file_size_mb * 1024 * 1024

\* utils.py 205-211
validate_word_count(s) ==
    <<Len(Words(s)) <= DOCUMENT_LIMITS.max_word_count, Len(Words(s))>>

RECURSIVE CollapseSpace(_)
\* re.sub(r'\s+', ' ', s)
CollapseSpace(s) ==
    IF s = <<>> THEN <<>>
    ELSE IF IsSpace(Head(s)) THEN <<" ">> \o CollapseSpace(LStrip(s))
    ELSE <<Head(s)>> \o CollapseSpace(Tail(s))

\* the characters the second re.sub of clean_text keeps
IsKept(c) ==
    \/ IsWordChar(c)
    \/ IsSpace(c)
    \/ c \in {".", ",", ";", ":", "!", "?", "-", "(", ")", "[", "]", "{", "}",
              "\"", "'", "/", "\\"}

\* utils.py 214-225
clean_text(s) == Strip(SelectSeq(CollapseSpace(s), IsKept))

\* chunk_text(text) at line 66, with the default budgets: a cleaned text
\* holds no blank line and, below 4000 tokens, is one paragraph that fits,
\* so the loop only fills the buffer and the final chunk is the whole text
DefaultChunks(s) ==
    IF count_tokens(s) <= DOCUMENT_LIMITS.chunk_size_tokens /\ Strip(s) # <<>>
    THEN <<[text |-> Strip(s), tokens |-> count_tokens(s), chunk_id |-> 0]>>
    ELSE <<>>

\* the file's extension: name.split('.')[-1].lower()
RECURSIVE LastDotPart(_, _)
LastDotPart(name, cur) ==
    IF name = <<>> THEN cur
    ELSE IF Head(name) = "." THEN LastDotPart(Tail(name), <<>>)
    ELSE LastDotPart(Tail(name), Append(cur, Head(name)))

FileExtension(name) == Lower(LastDotPart(name, <<>>))

\* lines 95-148: _extract_pdf_text, _extract_docx_text, _extract_txt_text;
\* the file's `content` is the text the library read, or that it raised
ExtractText(uploaded_file, kind) ==
    IF Raised(uploaded_file.content)
    THEN [raised |-> <<kind, "extraction failed">>]
    ELSE [text |-> uploaded_file.content.text]

\* lines 56-87: from clean_text to the returned dict
ProcessedDocument(uploaded_file, file_extension, extracted) ==
    LET cleaned == clean_text(extracted)
        counted == validate_word_count(cleaned)
        doc_chunks == DefaultChunks(cleaned)
        entities == extract_entities_spacy(cleaned, FALSE)
        legal_patterns == extract_legal_patterns(cleaned)
    IN  IF ~counted[1]
        THEN [success |-> FALSE, error |-> <<"Document too long", counted[2]>>]
        ELSE [success |-> TRUE,
              filename |-> uploaded_file.name,
              file_type |-> file_extension,
              text |-> cleaned,
              word_count |-> counted[2],
              chunks |-> doc_chunks,
              entities |-> entities,
              legal_patterns |-> legal_patterns,
              metadata |->
                 [chunk_count |-> Len(doc_chunks),
                  total_entities |->
                     Len(FlattenSeq([i \in 1..Len(Categories) |->
                                        entities[Categories[i]]])),
                  legal_patterns_count |-> Len(legal_patterns)]]

\* lines 27-87: the try body of process_file
ProcessFileBody(uploaded_file) ==
    LET file_extension == FileExtension(uploaded_file.name)
        extracted == ExtractText(uploaded_file, file_extension)
    IN  IF ~validate_file_size(uploaded_file.size)
        THEN [success |-> FALSE, error |-> <<"File too large">>]
        ELSE IF file_extension \notin {<<"p", "d", "f">>, <<"d", "o", "c", "x">>,
                                       <<"t", "x", "t">>}
        THEN [success |-> FALSE,
              error |-> <<"Unsupported file format", file_extension>>]
        ELSE IF Raised(extracted) THEN extracted
        ELSE IF Strip(extracted.text) = <<>>
        THEN [success |-> FALSE,
              error |-> <<"No text could be extracted from the document">>]
        ELSE ProcessedDocument(uploaded_file, file_extension, extracted.text)

\* process_file if it had no handler of its own
process_file_unhandled(uploaded_file) == ProcessFileBody(uploaded_file)

\* lines 22-93: the body and the handler of lines 89-93
process_file(uploaded_file) ==
    LET r == ProcessFileBody(uploaded_file)
    IN  IF Raised(r)
        THEN [success |-> FALSE, error |-> <<"Error processing file", r.raised>>]
        ELSE r

\* the files a batch is made of: readable, of a format that is not
\* supported, too large, blank, unreadable, and one whose text is cleaned
UploadedFiles ==
    {[name |-> <<"a", ".", "t", "x", "t">>, size |-> 4,
      content |-> [text |-> <<"A", " ", "b", ".">>]],
     [name |-> <<"b", ".", "e", "x", "e">>, size |-> 4,
      content |-> [text |-> <<"A", " ", "b", ".">>]],
     [name |-> <<"a", ".", "p", "d", "f">>, size |-> 52428801,
      content |-> [text |-> <<"A", " ", "b", ".">>]],
     [name |-> <<"b", ".", "t", "x", "t">>, size |-> 1,
      content |-> [text |-> <<" ">>]],
     [name |-> <<"a", ".", "d", "o", "c", "x">>, size |-> 4,
      content |-> [raised |-> "BadZipFile"]],
     [name |-> <<"b", ".", "P", "D", "F">>, size |-> 6,
      content |-> [text |-> <<"1", " ", "\n", "#", " ", "b">>]]}

\* lines 150-158: the call and the test of the batch's size
ProcessBatchCall ==
    /\ bpc = "idle"
    /\ \E n \in 0..MaxBatch : uploaded_files' \in [1..n -> UploadedFiles]
    /\ IF Len(uploaded_files') > DOCUMENT_LIMITS.max_batch_files
       THEN /\ batch_results' =
                  <<[success |-> FALSE, error |-> <<"Too many files">>]>>
            /\ bpc' = "returned"
       ELSE /\ batch_results' = <<>>
            /\ bpc' = "loop"
    /\ UNCHANGED exceptBatch

\* lines 161-163: one iteration; an exception of process_file would leave
\* process_batch
ProcessBatchStep ==
    /\ bpc = "loop"
    /\ Len(batch_results) < Len(uploaded_files)
    /\ LET result == process_file(uploaded_files[Len(batch_results) + 1])
       IN  IF Raised(result)
           THEN bpc' = "raised" /\ UNCHANGED batch_results
           ELSE batch_results' = Append(batch_results, result)
                   /\ UNCHANGED bpc
    /\ UNCHANGED uploaded_files
    /\ UNCHANGED exceptBatch

\* line 165
ProcessBatchReturn ==
    /\ bpc = "loop"
    /\ Len(batch_results) = Len(uploaded_files)
    /\ bpc' = "returned"
    /\ UNCHANGED <<uploaded_files, batch_results>>
    /\ UNCHANGED exceptBatch

\* process_batch is not running
BatchIdle ==
    /\ uploaded_files = <<>>
    /\ batch_results = <<>>
    /\ bpc = "idle"

-----------------------------------------------------------------------------
(* ollama_client.py: anonymize_text and anonymize_chunks.                  *)

\* the keys of PROMPT_TEMPLATES (config.py 95-153)
PROMPT_TEMPLATES == {"traditional", "strategic", "educational", "custom"}

\* lines 95-102: the template the prompt is formatted from.  The custom
\* template names {custom_guidelines}, so formatting it with text alone
\* raises a KeyError.
PromptTemplate(strategy, custom_guidelines) ==
    IF strategy = "custom" /\ custom_guidelines # <<>>
    THEN [template |-> "custom"]
    ELSE LET t == IF strategy \in PROMPT_TEMPLATES THEN strategy
                  ELSE "strategic"
         IN  IF t = "custom" THEN [raised |-> "KeyError: custom_guidelines"]
             ELSE [template |-> t]

\* lines 90-130; `post` is what requests.post does when the prompt is sent
anonymize_text(s, strategy, custom_guidelines, post) ==
    LET prompt == PromptTemplate(strategy, custom_guidelines)
        result == generate_text(post)
    IN  IF Raised(prompt)
        THEN [success |-> FALSE,
              error |-> <<"Anonymization failed", prompt.raised>>]
        ELSE IF result.success
        THEN [success |-> TRUE,
              original_text |-> s,
              anonymized_text |-> Strip(result.text),
              strategy |-> strategy,
              processing_time |-> Get(result, "total_duration", 0),
              token_usage |->
                 [prompt_tokens |-> Get(result, "prompt_eval_count", 0),
                  completion_tokens |-> Get(result, "eval_count", 0),
                  total_tokens |-> Get(result, "prompt_eval_count", 0)
                                      + Get(result, "eval_count", 0)]]
        ELSE [success |-> FALSE, error |-> result.error]

\* what requests.post can do when a chunk's prompt is sent
AnonPosts ==
    {[kind |-> "timeout"],
     [kind |-> "answer", status |-> 500],
     [kind |-> "answer", status |-> 200, total_duration |-> 0,
      response |-> <<"X">>],
     [kind |-> "answer", status |-> 200, total_duration |-> 0,
      response |-> <<" ", "Y", "\n">>]}

\* the strategies a caller can name: the four of the configuration and one
\* that is none of them
StrategyNames == PROMPT_TEMPLATES \cup {"aggressive"}

\* the chunk lists chunk_text hands over: chunk_id counts from 0
ChunkLists ==
    UNION {{[i \in 1..n |-> [text |-> ts[i], tokens |-> 0, chunk_id |-> i - 1]] :
               ts \in [1..n -> {<<"A">>, <<"b", ".">>}]} : n \in 0..MaxChunks}

\* lines 132-142: the call
AnonymizeChunksCall ==
    /\ apc = "idle"
    /\ anon_chunks' \in ChunkLists
    /\ anon_strategy' \in StrategyNames
    /\ anon_guidelines' \in {<<>>, <<"g">>}
    /\ anonymized_chunks' = <<>>
    /\ failed_chunks' = <<>>
    /\ anon_next' = 0
    /\ anon_calls' = <<>>
    /\ anon_result' = EmptyDict
    /\ apc' = "loop"
    /\ UNCHANGED exceptAnon

\* anonymize_chunks if it stopped at the first chunk that failed
chunk_failure_stops(result, chunk) ==
    /\ apc' = "returned"
    /\ anon_result' = [success |-> FALSE, error |-> result.error]
    /\ UNCHANGED <<anonymized_chunks, failed_chunks>>

\* lines 165-169: a chunk's failure is noted and the loop goes on
chunk_failure(result, chunk) ==
    /\ failed_chunks' =
          Append(failed_chunks,
                 [chunk_id |-> chunk.chunk_id, error |-> result.error])
    /\ UNCHANGED <<anonymized_chunks, anon_result, apc>>

\* lines 143-172: one iteration
AnonymizeChunk ==
    /\ apc = "loop"
    /\ anon_next < Len(anon_chunks)
    /\ \E post \in AnonPosts :
          LET chunk == anon_chunks[anon_next + 1]
              prompt == PromptTemplate(anon_strategy, anon_guidelines)
              result == anonymize_text(chunk.text, anon_strategy,
                                       anon_guidelines, post)
          IN  /\ anon_calls' =
                    Append(anon_calls,
                           [chunk_id |-> chunk.chunk_id,
                            template |-> Get(prompt, "template", "none")])
              /\ IF result.success
                 THEN /\ anonymized_chunks' =
                            Append(anonymized_chunks,
                                   [chunk_id |-> chunk.chunk_id,
                                    original_text |-> chunk.text,
                                    anonymized_text |-> result.anonymized_text,
                                    original_tokens |-> chunk.tokens,
                                    processing_time |-> result.processing_time,
                                    token_usage |-> result.token_usage])
                      /\ UNCHANGED <<failed_chunks, anon_result, apc>>
                 ELSE chunk_failure(result, chunk)
    /\ anon_next' = anon_next + 1
    /\ UNCHANGED <<anon_chunks, anon_strategy, anon_guidelines>>
    /\ UNCHANGED exceptAnon

RECURSIVE InsertByChunkId(_, _)
InsertByChunkId(c, sorted) ==
    IF sorted = <<>> THEN <<c>>
    ELSE IF c.chunk_id < Head(sorted).chunk_id THEN <<c>> \o sorted
    ELSE <<Head(sorted)>> \o InsertByChunkId(c, Tail(sorted))

RECURSIVE SortedByChunkId(_)
\* sorted(anonymized_chunks, key=lambda x: x["chunk_id"]), which is stable
SortedByChunkId(cs) ==
    IF cs = <<>> THEN <<>>
    ELSE InsertByChunkId(cs[Len(cs)], SortedByChunkId(SubSeq(cs, 1, Len(cs) - 1)))

RECURSIVE TotalProcessingTime(_)
\* line 162, over the loop
TotalProcessingTime(cs) ==
    IF cs = <<>> THEN 0
    ELSE Head(cs).processing_time + TotalProcessingTime(Tail(cs))

RECURSIVE TotalTokens(_)
\* line 163, over the loop
TotalTokens(cs) ==
    IF cs = <<>> THEN 0
    ELSE Head(cs).token_usage.total_tokens + TotalTokens(Tail(cs))

\* lines 174-177
CombinedText(cs) ==
    FlattenSeq([i \in 1..Len(cs) |-> cs[i].anonymized_text \o <<"\n", "\n">>])

\* lines 174-189: the loop is over
AnonymizeChunksReturn ==
    /\ apc = "loop"
    /\ anon_next = Len(anon_chunks)
    /\ anon_result' =
          [success |-> TRUE,
           anonymized_text |->
              Strip(CombinedText(SortedByChunkId(anonymized_chunks))),
           strategy |-> anon_strategy,
           chunks_processed |-> Len(anonymized_chunks),
           chunks_failed |-> Len(failed_chunks),
           total_processing_time |-> TotalProcessingTime(anonymized_chunks),
           total_tokens |-> TotalTokens(anonymized_chunks),
           failed_chunks |-> failed_chunks,
           chunk_details |-> anonymized_chunks]
    /\ apc' = "returned"
    /\ UNCHANGED <<anon_chunks, anon_strategy, anon_guidelines,
                   anonymized_chunks, failed_chunks, anon_next, anon_calls>>
    /\ UNCHANGED exceptAnon

\* anonymize_chunks is not running
AnonIdle ==
    /\ anon_chunks = <<>>
    /\ anon_strategy = "strategic"
    /\ anon_guidelines = <<>>
    /\ anonymized_chunks = <<>>
    /\ failed_chunks = <<>>
    /\ anon_next = 0
    /\ anon_calls = <<>>
    /\ anon_result = EmptyDict
    /\ apc = "idle"

-----------------------------------------------------------------------------
(* error_handler.py: validate_strategy_config.                             *)

\* a string of n characters
Filled(n) == [i \in 1..n |-> "g"]

\* the custom_guidelines a caller can pass: None, a string, or a value that
\* is no string
GuidelinesInputs ==
    {[none |-> TRUE], [number |-> 5]}
        \cup {[text |-> t] : t \in {<<>>, <<" ">>, <<"g">>, Filled(999),
                                     Filled(1000), Filled(1001)}}

\* the strategy names a caller can pass to the validation
ConfigStrategyNames == StrategyNames \cup {"invalid", "", "Custom"}

\* bool(custom_guidelines)
Truthy(g) ==
    IF "none" \in DOMAIN g THEN FALSE
    ELSE IF "number" \in DOMAIN g THEN g.number # 0
    ELSE g.text # <<>>

\* validate_strategy_config if it did not look at the guidelines
strategy_config_name_only(strategy, custom_guidelines) ==
    IF strategy \notin {"traditional", "strategic", "educational", "custom"}
    THEN [success |-> FALSE, error |-> "Invalid strategy"]
    ELSE [success |-> TRUE, message |-> "Strategy configuration valid"]

\* lines 136-148: the try body; len() of a number raises a TypeError
ValidateStrategyBody(strategy, custom_guidelines) ==
    IF strategy \notin {"traditional", "strategic", "educational", "custom"}
    THEN [success |-> FALSE, error |-> "Invalid strategy"]
    ELSE IF strategy = "custom" /\ ~Truthy(custom_guidelines)
    THEN [success |-> FALSE,
          error |-> "Custom guidelines required for custom strategy"]
    ELSE IF ~Truthy(custom_guidelines)
    THEN [success |-> TRUE, message |-> "Strategy configuration valid"]
    ELSE IF "number" \in DOMAIN custom_guidelines
    THEN [raised |-> "TypeError: object of type 'int' has no len()"]
    ELSE IF Len(custom_guidelines.text) > 1000
    THEN [success |-> FALSE,
          error |-> "Custom guidelines too long (max 1000 characters)"]
    ELSE [success |-> TRUE, message |-> "Strategy configuration valid"]

\* lines 132-151: the body, and handle_error (lines 37-56) for what it raises
validate_strategy_config(strategy, custom_guidelines) ==
    LET r == ValidateStrategyBody(strategy, custom_guidelines)
    IN  IF Raised(r)
        THEN [success |-> FALSE,
              error |-> "An unexpected error occurred",
              technical_error |-> r.raised,
              context |-> "Strategy validation"]
        ELSE r

\* line 132: the call
ValidateStrategyCall ==
    /\ vpc = "idle"
    /\ config_strategy' \in ConfigStrategyNames
    /\ config_guidelines' \in GuidelinesInputs
    /\ vpc' = "called"
    /\ UNCHANGED config_result
    /\ UNCHANGED exceptConfig

\* lines 136-151
ValidateStrategyReturn ==
    /\ vpc = "called"
    /\ config_result' =
          validate_strategy_config(config_strategy, config_guidelines)
    /\ vpc' = "returned"
    /\ UNCHANGED <<config_strategy, config_guidelines>>
    /\ UNCHANGED exceptConfig

\* the caller goes on
ValidateStrategyDone ==
    /\ vpc = "returned"
    /\ config_strategy' = "strategic"
    /\ config_guidelines' = [none |-> TRUE]
    /\ config_result' = EmptyDict
    /\ vpc' = "idle"
    /\ UNCHANGED exceptConfig

ConfigIdle ==
    /\ config_strategy = "strategic"
    /\ config_guidelines = [none |-> TRUE]
    /\ config_result = EmptyDict
    /\ vpc = "idle"

-----------------------------------------------------------------------------
(* scoring_system.py: calculate_strategic_value_score.  Scores and rates   *)
(* are fractions <<numerator, denominator>>.                               *)

\* scoring_system.py, the list at line 117
legal_terms ==
    {<<"c", "o", "n", "t", "r", "a", "c", "t">>,
     <<"b", "r", "e", "a", "c", "h">>,
     <<"l", "i", "a", "b", "i", "l", "i", "t", "y">>,
     <<"d", "a", "m", "a", "g", "e", "s">>,
     <<"n", "e", "g", "l", "i", "g", "e", "n", "c", "e">>,
     <<"s", "t", "a", "t", "u", "t", "e">>,
     <<"p", "r", "e", "c", "e", "d", "e", "n", "t">>,
     <<"j", "u", "r", "i", "s", "d", "i", "c", "t", "i", "o", "n">>,
     <<"m", "o", "t", "i", "o", "n">>,
     <<"d", "i", "s", "c", "o", "v", "e", "r", "y">>,
     <<"e", "v", "i", "d", "e", "n", "c", "e">>,
     <<"t", "e", "s", "t", "i", "m", "o", "n", "y">>,
     <<"r", "u", "l", "i", "n", "g">>,
     <<"j", "u", "d", "g", "m", "e", "n", "t">>,
     <<"a", "p", "p", "e", "a", "l">>,
     <<"c", "o", "n", "s", "t", "i", "t", "u", "t", "i", "o", "n", "a", "l">>,
     <<"d", "u", "e", " ", "p", "r", "o", "c", "e", "s", "s">>,
     <<"b", "u", "r", "d", "e", "n", " ", "o", "f", " ", "p", "r", "o", "o", "f">>,
     <<"s", "t", "a", "n", "d", "a", "r", "d", " ", "o", "f", " ", "c", "a", "r", "e">>}

\* scoring_system.py, the list at line 138
reasoning_indicators ==
    {<<"t", "h", "e", "r", "e", "f", "o", "r", "e">>,
     <<"b", "e", "c", "a", "u", "s", "e">>,
     <<"s", "i", "n", "c", "e">>,
     <<"a", "s", " ", "a", " ", "r", "e", "s", "u", "l", "t">>,
     <<"c", "o", "n", "s", "e", "q", "u", "e", "n", "t", "l", "y">>,
     <<"h", "o", "w", "e", "v", "e", "r">>,
     <<"n", "e", "v", "e", "r", "t", "h", "e", "l", "e", "s", "s">>,
     <<"f", "u", "r", "t", "h", "e", "r", "m", "o", "r", "e">>,
     <<"m", "o", "r", "e", "o", "v", "e", "r">>,
     <<"i", "n", " ", "c", "o", "n", "t", "r", "a", "s", "t">>}

\* scoring_system.py, the list at line 163
educational_elements ==
    {<<"e", "x", "a", "m", "p", "l", "e">>,
     <<"i", "l", "l", "u", "s", "t", "r", "a", "t", "e", "s">>,
     <<"d", "e", "m", "o", "n", "s", "t", "r", "a", "t", "e", "s">>,
     <<"s", "h", "o", "w", "s">>,
     <<"t", "e", "a", "c", "h", "e", "s">>,
     <<"p", "r", "i", "n", "c", "i", "p", "l", "e">>,
     <<"c", "o", "n", "c", "e", "p", "t">>,
     <<"t", "h", "e", "o", "r", "y">>,
     <<"p", "r", "a", "c", "t", "i", "c", "e">>,
     <<"m", "e", "t", "h", "o", "d">>,
     <<"a", "p", "p", "r", "o", "a", "c", "h">>,
     <<"s", "t", "r", "a", "t", "e", "g", "y">>,
     <<"t", "e", "c", "h", "n", "i", "q", "u", "e">>,
     <<"p", "r", "o", "c", "e", "s", "s">>,
     <<"p", "r", "o", "c", "e", "d", "u", "r", "e">>}

\* scoring_system.py, the list at line 179
abstract_concepts ==
    {<<"a", "n", "a", "l", "y", "s", "i", "s">>,
     <<"i", "n", "t", "e", "r", "p", "r", "e", "t", "a", "t", "i", "o", "n">>,
     <<"c", "o", "n", "c", "l", "u", "s", "i", "o", "n">>,
     <<"r", "a", "t", "i", "o", "n", "a", "l", "e">>,
     <<"r", "e", "a", "s", "o", "n", "i", "n", "g">>,
     <<"l", "o", "g", "i", "c">>,
     <<"a", "r", "g", "u", "m", "e", "n", "t">>,
     <<"p", "o", "s", "i", "t", "i", "o", "n">>,
     <<"s", "t", "a", "n", "c", "e">>}

\* scoring_system.py, the list at line 204
business_terms ==
    {<<"m", "a", "r", "k", "e", "t">>,
     <<"i", "n", "d", "u", "s", "t", "r", "y">>,
     <<"c", "o", "m", "p", "e", "t", "i", "t", "i", "o", "n">>,
     <<"s", "t", "r", "a", "t", "e", "g", "y">>,
     <<"r", "e", "v", "e", "n", "u", "e">>,
     <<"c", "o", "s", "t", "s">>,
     <<"p", "r", "o", "f", "i", "t">>,
     <<"l", "o", "s", "s">>,
     <<"i", "n", "v", "e", "s", "t", "m", "e", "n", "t">>,
     <<"r", "i", "s", "k">>,
     <<"o", "p", "p", "o", "r", "t", "u", "n", "i", "t", "y">>,
     <<"n", "e", "g", "o", "t", "i", "a", "t", "i", "o", "n">>,
     <<"c", "o", "n", "t", "r", "a", "c", "t">>,
     <<"d", "e", "a", "l">>,
     <<"p", "a", "r", "t", "n", "e", "r", "s", "h", "i", "p">>,
     <<"m", "e", "r", "g", "e", "r">>}

\* scoring_system.py, the list at line 220
strategic_terms ==
    {<<"c", "o", "m", "p", "e", "t", "i", "t", "i", "v", "e", " ", "a", "d", "v", "a", "n", "t", "a", "g", "e">>,
     <<"m", "a", "r", "k", "e", "t", " ", "p", "o", "s", "i", "t", "i", "o", "n">>,
     <<"s", "t", "r", "a", "t", "e", "g", "i", "c", " ", "a", "p", "p", "r", "o", "a", "c", "h">>,
     <<"b", "u", "s", "i", "n", "e", "s", "s", " ", "m", "o", "d", "e", "l">>,
     <<"v", "a", "l", "u", "e", " ", "p", "r", "o", "p", "o", "s", "i", "t", "i", "o", "n">>,
     <<"r", "i", "s", "k", " ", "a", "s", "s", "e", "s", "s", "m", "e", "n", "t">>}

\* scoring_system.py, the list at line 245
procedural_terms ==
    {<<"s", "t", "e", "p">>,
     <<"p", "r", "o", "c", "e", "s", "s">>,
     <<"p", "r", "o", "c", "e", "d", "u", "r", "e">>,
     <<"m", "e", "t", "h", "o", "d">>,
     <<"a", "p", "p", "r", "o", "a", "c", "h">>,
     <<"f", "i", "r", "s", "t">>,
     <<"s", "e", "c", "o", "n", "d">>,
     <<"t", "h", "i", "r", "d">>,
     <<"n", "e", "x", "t">>,
     <<"t", "h", "e", "n">>,
     <<"f", "i", "n", "a", "l", "l", "y">>,
     <<"b", "e", "f", "o", "r", "e">>,
     <<"a", "f", "t", "e", "r">>,
     <<"d", "u", "r", "i", "n", "g">>,
     <<"t", "i", "m", "e", "l", "i", "n", "e">>,
     <<"d", "e", "a", "d", "l", "i", "n", "e">>}

\* line 263: the second timing pattern
MonthNames ==
    {<<"j", "a", "n", "u", "a", "r", "y">>,
     <<"f", "e", "b", "r", "u", "a", "r", "y">>,
     <<"m", "a", "r", "c", "h">>,
     <<"a", "p", "r", "i", "l">>,
     <<"m", "a", "y">>,
     <<"j", "u", "n", "e">>,
     <<"j", "u", "l", "y">>,
     <<"a", "u", "g", "u", "s", "t">>,
     <<"s", "e", "p", "t", "e", "m", "b", "e", "r">>,
     <<"o", "c", "t", "o", "b", "e", "r">>,
     <<"n", "o", "v", "e", "m", "b", "e", "r">>,
     <<"d", "e", "c", "e", "m", "b", "e", "r">>}

\* sum(1 for term in terms if term.lower() in text.lower())
TermCount(terms, s) ==
    LET low == Lower(s)
        starts(c) == {i \in 1..Len(low) : low[i] = c}
    IN  Cardinality({t \in terms :
            \E i \in starts(Lower(t)[1]) :
                /\ i + Len(t) - 1 <= Len(low)
                /\ SubSeq(low, i, i + Len(t) - 1) = Lower(t)})

IsLetter(c) ==
    c \in {"a", "b", "c", "d", "e", "f", "g", "h", "i", "j", "k", "l", "m",
           "n", "o", "p", "q", "r", "s", "t", "u", "v", "w", "x", "y", "z"}

\* a month's name stands at offset i of s between two word boundaries
MonthAt(s, i) ==
    \E m \in MonthNames :
        /\ i + Len(m) <= Len(s)
        /\ SubSeq(s, i + 1, i + Len(m)) = m
        /\ (i = 0 \/ ~IsLetter(s[i]))
        /\ (i + Len(m) = Len(s) \/ ~IsLetter(s[i + Len(m) + 1]))

\* lines 259-266: the matches of the three timing patterns in text.lower().
\* The first and the third pattern need a digit; texts over the model's
\* words hold none, so only names of months are found in them.
TimingCount(s) ==
    Cardinality({i \in 0..(Len(s) - 1) : MonthAt(Lower(s), i)})

RECURSIVE Gcd(_, _)
Gcd(a, b) == IF b = 0 THEN a ELSE Gcd(b, a % b)

\* a fraction of a positive denominator in lowest terms
Reduced(x) ==
    LET d == Gcd(IF x[1] < 0 THEN -x[1] ELSE x[1], x[2])
    IN  <<x[1] \div d, x[2] \div d>>

\* x + y and x * n / 100 of fractions
FracAdd(x, y) == Reduced(<<x[1] * y[2] + y[1] * x[2], x[2] * y[2]>>)
Weighted(x, n) == Reduced(<<x[1] * n, x[2] * 100>>)

\* a fraction left as it is
Unclamped(x) == Reduced(x)

\* min(100, max(0, x)) of a fraction x
Clamped(x) ==
    IF x[1] < 0 THEN <<0, 1>>
    ELSE IF x[1] > 100 * x[2] THEN <<100, 1>>
    ELSE Reduced(x)

\* a sub-score's shape: 100.0 if the original holds none of the main terms,
\* else (main rate * w + secondary rate * (10 - w)) / 10 * 100, clamped;
\* the secondary rate is 1.0 if the original holds none of its terms
SubScore(orig_main, anon_main, orig_second, anon_second, w) ==
    IF orig_main = 0 THEN <<100, 1>>
    ELSE LET second == IF orig_second > 0 THEN <<anon_second, orig_second>>
                       ELSE <<1, 1>>
         IN  Clamped(<<100 * (anon_main * w * second[2]
                                 + second[1] * (10 - w) * orig_main),
                       10 * orig_main * second[2]>>)

\* lines 111-155
test_legal_principle_retention(original, anonymized) ==
    SubScore(TermCount(legal_terms, original),
             TermCount(legal_terms, anonymized),
             TermCount(reasoning_indicators, original),
             TermCount(reasoning_indicators, anonymized), 7)

\* lines 157-195
test_educational_value(original, anonymized) ==
    SubScore(TermCount(educational_elements, original),
             TermCount(educational_elements, anonymized),
             TermCount(abstract_concepts, original),
             TermCount(abstract_concepts, anonymized), 6)

\* lines 197-235
test_business_intelligence(original, anonymized) ==
    SubScore(TermCount(business_terms, original),
             TermCount(business_terms, anonymized),
             TermCount(strategic_terms, original),
             TermCount(strategic_terms, anonymized), 7)

\* lines 237-279
test_procedural_guidance(original, anonymized) ==
    SubScore(TermCount(procedural_terms, original),
             TermCount(procedural_terms, anonymized),
             TimingCount(original), TimingCount(anonymized), 8)

\* lines 84-94: the four sub-scores
StrategicSubScores(original, anonymized) ==
    [legal_principle_retention |->
        test_legal_principle_retention(original, anonymized),
     educational_value |-> test_educational_value(original, anonymized),
     business_intelligence |-> test_business_intelligence(original, anonymized),
     procedural_guidance |-> test_procedural_guidance(original, anonymized)]

\* lines 96-105: the weighted sum, the weights in hundredths
StrategicTotal(scores, w) ==
    FracAdd(FracAdd(FracAdd(
        Weighted(scores.legal_principle_retention,
                 w.legal_principle_retention),
        Weighted(scores.educational_value, w.educational_value)),
        Weighted(scores.business_intelligence, w.business_intelligence)),
        Weighted(scores.procedural_guidance, w.procedural_guidance))

\* the words of the texts that are scored
ValueWords ==
    {<<"c", "o", "n", "t", "r", "a", "c", "t">>,
     <<"t", "h", "e", "r", "e", "f", "o", "r", "e">>,
     <<"e", "x", "a", "m", "p", "l", "e">>,
     <<"p", "r", "o", "c", "e", "s", "s">>,
     <<"m", "a", "r", "c", "h">>}

ValueTexts ==
    {Join(ws, <<" ">>) :
        ws \in UNION {[1..n -> ValueWords] : n \in 0..MaxValueWords}}

\* line 79: the call, on a scorer that has been constructed
StrategicValueCall ==
    /\ svpc = "idle"
    /\ spc = "ready"
    /\ value_original' \in ValueTexts
    /\ value_anonymized' \in ValueTexts
    /\ svpc' = "called"
    /\ UNCHANGED <<value_scores, value_total>>
    /\ UNCHANGED exceptValue

\* lines 83-105
StrategicValueReturn ==
    /\ svpc = "called"
    /\ value_scores' = StrategicSubScores(value_original, value_anonymized)
    /\ value_total' = StrategicTotal(value_scores', self_weights.strategic_value)
    /\ svpc' = "returned"
    /\ UNCHANGED <<value_original, value_anonymized>>
    /\ UNCHANGED exceptValue

ValueIdle ==
    /\ value_original = <<>>
    /\ value_anonymized = <<>>
    /\ value_scores = EmptyDict
    /\ value_total = <<0, 1>>
    /\ svpc = "idle"

-----------------------------------------------------------------------------
(* error_handler.py: retry_with_backoff.                                   *)

\* what one invocation of `func` does: it returns a value, raises an
\* Exception, or raises a BaseException that is no Exception
FuncOutcomes ==
    {[value |-> "v1"], [value |-> "v2"],
     [raised |-> "e1"], [raised |-> "e2"],
     [fatal |-> "KeyboardInterrupt"]}

InitialDelays == {1, 2}

RetryPending == [pending |-> TRUE]

\* 2 ** n
RECURSIVE Pow2(_)
Pow2(n) == IF n <= 0 THEN 1 ELSE 2 * Pow2(n - 1)

\* no attempt is taken for the final one
never_final_attempt(attempt, max_retries) == FALSE

\* line 285: attempt == max_retries - 1
is_final_attempt(attempt, max_retries) == attempt = max_retries - 1

\* line 275: the call
RetryCall ==
    /\ rpc = "idle"
    /\ retry_max' \in 0..MaxRetries
    /\ retry_delay' \in InitialDelays
    /\ retry_func' \in [1..MaxRetries -> FuncOutcomes]
    /\ retry_attempt' = 0
    /\ rpc' = "loop"
    /\ UNCHANGED <<retry_calls, retry_sleeps, retry_result>>
    /\ UNCHANGED exceptRetry

\* lines 281-286: one pass of the loop up to the sleep: func is invoked; its
\* value is returned, or its exception is raised again if the attempt was
\* the final one or the exception is no Exception
RetryAttempt ==
    /\ rpc = "loop"
    /\ retry_attempt < retry_max
    /\ LET outcome == retry_func[Len(retry_calls) + 1]
       IN  /\ retry_calls' = Append(retry_calls, outcome)
           /\ IF "value" \in DOMAIN outcome
              THEN /\ retry_result' = outcome
                   /\ rpc' = "returned"
              ELSE IF "fatal" \in DOMAIN outcome
              THEN /\ retry_result' = [raised |-> outcome.fatal]
                   /\ rpc' = "raised"
              ELSE IF is_final_attempt(retry_attempt, retry_max)
              THEN /\ retry_result' = outcome
                   /\ rpc' = "raised"
              ELSE /\ retry_result' = retry_result
                   /\ rpc' = "sleeping"
    /\ UNCHANGED <<retry_func, retry_max, retry_delay, retry_attempt,
                   retry_sleeps>>
    /\ UNCHANGED exceptRetry

\* lines 288-289: the sleep, then the next pass
RetrySleep ==
    /\ rpc = "sleeping"
    /\ retry_sleeps' = Append(retry_sleeps,
                              [after |-> Len(retry_calls),
                               delay |-> retry_delay * Pow2(retry_attempt)])
    /\ retry_attempt' = retry_attempt + 1
    /\ rpc' = "loop"
    /\ UNCHANGED <<retry_func, retry_max, retry_delay, retry_calls,
                   retry_result>>
    /\ UNCHANGED exceptRetry

\* line 291: the loop has ended, None is returned
RetryLoopEnd ==
    /\ rpc = "loop"
    /\ retry_attempt >= retry_max
    /\ retry_result' = [none |-> TRUE]
    /\ rpc' = "returned"
    /\ UNCHANGED <<retry_func, retry_max, retry_delay, retry_attempt,
                   retry_calls, retry_sleeps>>
    /\ UNCHANGED exceptRetry

RetryIdle ==
    /\ retry_func = <<>>
    /\ retry_max = 0
    /\ retry_delay = 0
    /\ retry_attempt = 0
    /\ retry_calls = <<>>
    /\ retry_sleeps = <<>>
    /\ retry_result = RetryPending
    /\ rpc = "idle"

-----------------------------------------------------------------------------
(* main.py: the pages Upload, Anonymize, Test and Results working on       *)
(* st.session_state.                                                       *)

NoResults == [shown |-> FALSE]

\* the strategies chosen on the Anonymize page
WorkflowStrategies == {"traditional", "educational"}

\* what anonymize_chunks returns to the page: its failure, or the text
\* combined of the chunks
AnonymizeOutcomes ==
    {[success |-> FALSE, error |-> "Chunk anonymization failed"],
     [success |-> TRUE, anonymized_text |-> <<"X">>],
     [success |-> TRUE, anonymized_text |-> <<"Y">>]}

\* lines 210-214: the result handed to the page
AnonymizationResult(outcome, strategy) ==
    IF outcome.success
    THEN [success |-> TRUE,
          anonymized_text |-> outcome.anonymized_text,
          strategy |-> strategy]
    ELSE outcome

\* lines 26-33: a session that never anonymized or tested anything
SessionNew ==
    /\ session_processed_documents = EmptyDict
    /\ session_anonymization_results = EmptyDict
    /\ session_test_results = EmptyDict
    /\ session_current_document = "None"
    /\ tests_computed_from = EmptyDict
    /\ results_shown = NoResults

\* lines 96-128: a file is uploaded and processed; if that succeeds the
\* document is stored under its file's name and added to the corpus; one of
\* the stored documents is selected
UploadPage ==
    /\ pc = "idle"
    /\ Len(added_documents) < MaxUploads
    /\ \E result \in Documents :
        /\ IF result.success
           THEN /\ session_processed_documents' =
                       (result.filename :> result) @@ session_processed_documents
                /\ add_to_corpus(result)
           ELSE UNCHANGED <<session_processed_documents, document_corpus,
                            added_documents>>
        /\ IF DOMAIN session_processed_documents' # {}
           THEN session_current_document' \in DOMAIN session_processed_documents'
           ELSE UNCHANGED session_current_document
    /\ results_shown' = NoResults
    /\ UNCHANGED <<session_anonymization_results, session_test_results,
                   tests_computed_from>>
    /\ UNCHANGED <<original_text, anonymized_text, results, report,
                   ner_failed, service_outcome, pc>>
    /\ UNCHANGED <<chunkVars, scoreVars, xrefVars, exceptSession>>

\* lines 149-219: the button "Start Anonymization"
AnonymizePage ==
    /\ session_current_document # "None"
    /\ \E connected \in BOOLEAN, strategy \in WorkflowStrategies,
          outcome \in AnonymizeOutcomes :
        LET result == AnonymizationResult(outcome, strategy)
        IN  session_anonymization_results' =
                IF connected /\ result.success
                THEN (session_current_document :> result)
                         @@ session_anonymization_results
                ELSE session_anonymization_results
    /\ results_shown' = NoResults
    /\ UNCHANGED <<session_processed_documents, session_test_results,
                   session_current_document, tests_computed_from>>
    /\ UNCHANGED <<chunkVars, testerVars, scoreVars, exceptSession>>

\* lines 257-302: the button "Run Tests"; of the report of run_all_tests
\* its success and its strategy are kept
TestPage ==
    /\ session_current_document # "None"
    /\ session_current_document \in DOMAIN session_anonymization_results
    /\ \E connected \in BOOLEAN, succeeded \in BOOLEAN :
        LET stored_result ==
                session_anonymization_results[session_current_document]
            test_report == [success |-> TRUE, strategy |-> stored_result.strategy]
        IN  IF connected /\ succeeded
            THEN /\ session_test_results' =
                        (session_current_document :> test_report)
                            @@ session_test_results
                 /\ tests_computed_from' =
                        (session_current_document :> stored_result)
                            @@ tests_computed_from
            ELSE UNCHANGED <<session_test_results, tests_computed_from>>
    /\ results_shown' = NoResults
    /\ UNCHANGED <<session_processed_documents, session_anonymization_results,
                   session_current_document>>
    /\ UNCHANGED <<chunkVars, testerVars, scoreVars, exceptSession>>

\* lines 380-410: the Results page scores the stored anonymization result
\* and combines that score with the stored test results
ResultsPage ==
    /\ session_current_document # "None"
    /\ session_current_document \in DOMAIN session_anonymization_results
    /\ session_current_document \in DOMAIN session_test_results
    /\ results_shown' =
           [shown |-> TRUE,
            document |-> session_current_document,
            strategic_score_of |->
                session_anonymization_results[session_current_document],
            test_results_of |-> tests_computed_from[session_current_document]]
    /\ UNCHANGED <<session_processed_documents, session_anonymization_results,
                   session_test_results, session_current_document,
                   tests_computed_from>>
    /\ UNCHANGED <<chunkVars, testerVars, scoreVars, exceptSession>>

AuxIdle ==
    BatchIdle /\ AnonIdle /\ ConfigIdle /\ ValueIdle /\ RetryIdle /\ SessionNew

Init == TesterInit /\ ChunkIdle /\ ShippedConfig /\ ScorerNew /\ AuxIdle

\* chunk_text is called; the tester and the scorer are as constructed
ChunkCall == ChunkInit /\ TesterInit /\ ShippedConfig /\ ScorerNew /\ AuxIdle

SpecChunk == ChunkCall /\ [][ChunkNext]_vars

ScoreInit ==
    /\ TesterInit
    /\ ChunkIdle
    /\ scoring_weights \in WeightConfigs
    /\ ScorerNew
    /\ AuxIdle

ScoreNext ==
    \/ ScoringSystemInit
    \/ CalculateResistance
    \/ CalculateOverallScore
    \/ GetQualityLevel

SpecScore == ScoreInit /\ [][ScoreNext]_vars

Next ==
    \/ AddToCorpus
    \/ StartRun
    \/ RunDirectIdentifiers
    \/ RunPatternMatching
    \/ RunContextualReconstruction
    \/ RunCrossReference
    \/ RunLinguisticFingerprinting
    \/ ReturnReport
    \/ Returned

Spec == Init /\ [][Next]_vars

\* the words of the texts the pattern probe is run on: a number and a
\* reporter's name, of which "1 Ab 1" is a case citation
PatternWordForms == {<<"1">>, <<"A", "b">>}

PatternTexts ==
    {Join(ws, <<" ">>) :
        ws \in UNION {[1..n -> PatternWordForms] : n \in 0..MaxPatternWords}}

\* lines 31-36: run_all_tests is called on a fresh tester with two such texts
PatternCall ==
    /\ document_corpus = <<>>
    /\ original_text \in PatternTexts
    /\ anonymized_text \in PatternTexts
    /\ results = EmptyDict
    /\ report = NoReport
    /\ ner_failed = FALSE
    /\ service_outcome = <<"none">>
    /\ pc = "direct"
    /\ added_documents = <<>>
    /\ xref_text = <<>>
    /\ corpus_at_call = <<>>
    /\ xref_similarities = <<>>
    /\ xref_next = 0
    /\ xref_result = EmptyDict
    /\ xpc = "idle"
    /\ ChunkIdle
    /\ ShippedConfig
    /\ ScorerNew
    /\ AuxIdle

\* lines 38-46: the first two probes of the battery
PatternNext ==
    \/ RunDirectIdentifiers
    \/ RunPatternMatching

SpecPattern == PatternCall /\ [][PatternNext]_vars

\* one session of the application
WorkflowNext ==
    \/ UploadPage
    \/ AnonymizePage
    \/ TestPage
    \/ ResultsPage

SpecWorkflow == Init /\ [][WorkflowNext]_vars

\* one call of retry_with_backoff
RetryNext ==
    \/ RetryCall
    \/ RetryAttempt
    \/ RetrySleep
    \/ RetryLoopEnd

SpecRetry == Init /\ [][RetryNext]_vars

\* a scorer is constructed and scores one pair of texts
ValueNext ==
    \/ ScoringSystemInit
    \/ StrategicValueCall
    \/ StrategicValueReturn

SpecValue == Init /\ [][ValueNext]_vars

\* calls of validate_strategy_config
ConfigNext ==
    \/ ValidateStrategyCall
    \/ ValidateStrategyReturn
    \/ ValidateStrategyDone

SpecConfig == Init /\ [][ConfigNext]_vars

\* one call of anonymize_chunks
AnonNext ==
    \/ AnonymizeChunksCall
    \/ AnonymizeChunk
    \/ AnonymizeChunksReturn

SpecAnon == Init /\ [][AnonNext]_vars

\* one call of process_batch on a fresh processor
BatchNext ==
    \/ ProcessBatchCall
    \/ ProcessBatchStep
    \/ ProcessBatchReturn

SpecBatch == Init /\ [][BatchNext]_vars

\* sessions that share one tester: add_to_corpus calls, and one
\* test_cross_reference call taking its steps between them
CorpusNext ==
    \/ SessionAddToCorpus
    \/ CrossReferenceCall
    \/ CrossReferenceCompare
    \/ CrossReferenceLoopEnd
    \/ CrossReferenceReturn

SpecCorpus == Init /\ [][CorpusNext]_vars

-----------------------------------------------------------------------------
(* Properties of chunk_text.                                               *)

IsPrefix(p, s) == Len(p) <= Len(s) /\ SubSeq(s, 1, Len(p)) = p

IsSuffix(p, s) == Len(p) <= Len(s) /\ SubSeq(s, Len(s) - Len(p) + 1, Len(s)) = p

\* the overlap text chunk i (i >= 2) was seeded with
SeedOf(i) == overlap_texts[i - 1]

\* a chunk that is one sentence which alone exceeds the budget
SingleOversizeSentence(c) ==
    /\ Len(split_sentences(c.text)) = 1
    /\ count_tokens(c.text) > chunk_size

\* C1: every chunk's tokens field is at most chunk_size, unless the chunk is
\* a single sentence that alone exceeds chunk_size.
C1_ChunkWithinBudget ==
    \A i \in 1..Len(chunks) :
        chunks[i].tokens <= chunk_size \/ SingleOversizeSentence(chunks[i])

\* C2: every chunk but the first starts with the trailing overlap words of
\* the previous chunk, and that overlap is at most `overlap` tokens.
C2_OverlapLeadsAndFits ==
    \A i \in 2..Len(chunks) :
        /\ IsPrefix(Words(SeedOf(i)), Words(chunks[i].text))
        /\ IsSuffix(Words(SeedOf(i)), Words(chunks[i - 1].text))
        /\ count_tokens(SeedOf(i)) <= overlap

RECURSIVE UniqueWords(_)
\* the words of chunks 1..n, each chunk after the first without the words of
\* its leading overlap region
UniqueWords(n) ==
    IF n = 0 THEN <<>>
    ELSE LET ws == Words(chunks[n].text)
             k == IF n = 1 THEN 0 ELSE Len(Words(SeedOf(n)))
         IN  UniqueWords(n - 1) \o
                 (IF k >= Len(ws) THEN <<>> ELSE SubSeq(ws, k + 1, Len(ws)))

\* C3: the chunks, each without its leading overlap region, concatenate to
\* the word sequence of the text.
C3_WordsReconstructed ==
    cpc = "done" => UniqueWords(Len(chunks)) = Words(text)

-----------------------------------------------------------------------------
(* Properties of the probes and of run_all_tests.                          *)

\* the tier a score (in hundredths) stands for
TierOf(score) ==
    IF score < 7000 THEN "high" ELSE IF score < 9000 THEN "medium" ELSE "low"

\* the list of risk_assessment that holds the probes of a tier
TierList(risk_assessment, tier) ==
    IF tier = "high" THEN risk_assessment.high_risk_factors
    ELSE IF tier = "medium" THEN risk_assessment.medium_risk_factors
    ELSE risk_assessment.low_risk_factors

\* C4: every probe result a probe returned has a score in [0,100].
C4_ScoresInRange ==
    \A n \in DOMAIN results :
        results[n].score >= 0 /\ results[n].score <= 10000

\* C5: every probe result's risk tier is the tier of its score (high below
\* 70, medium below 90, low otherwise), and risk_assessment lists each probe
\* in the list of exactly that tier.
C5_TierFollowsScore ==
    /\ \A n \in DOMAIN results :
          Get(results[n], "risk_level", "none") = TierOf(results[n].score)
    /\ (pc = "done" /\ report.success) =>
          \A n \in DOMAIN report.test_results :
              \A tier \in {"high", "medium", "low"} :
                  (n \in Range(TierList(report.risk_assessment, tier)))
                      <=> (tier = TierOf(report.test_results[n].score))

\* the generation service timed out, refused the connection or answered with
\* a failure in this run
ServiceFailed ==
    \/ service_outcome \in {<<"timeout">>, <<"refused">>}
    \/ (Len(service_outcome) = 2 /\ service_outcome[2] # 200)

\* C6: when the generation service fails, the contextual-reconstruction
\* probe result has score 0 and a high risk tier, is listed among the
\* high-risk factors, and the remaining probes still ran.
C6_ServiceFailureIsHighRisk ==
    (pc = "done" /\ ServiceFailed) =>
        /\ report.success
        /\ DOMAIN report.test_results = Range(ProbeNames)
        /\ report.test_results["contextual_reconstruction"].score = 0
        /\ Get(report.test_results["contextual_reconstruction"],
               "risk_level", "none") = "high"
        /\ "contextual_reconstruction"
               \in Range(report.risk_assessment.high_risk_factors)

\* C7: when the named-entity recognizer fails inside the direct-identifier
\* probe, the probe result has score 0, a high risk tier and the failure
\* reason as evidence.
C7_NerFailureIsZeroHighRisk ==
    (ner_failed /\ "direct_identifier" \in DOMAIN results) =>
        /\ results["direct_identifier"].score = 0
        /\ "error" \in DOMAIN results["direct_identifier"]
        /\ Get(results["direct_identifier"], "risk_level", "none") = "high"

\* C8: whatever probes failed, run_all_tests returns a successful report
\* with a probe result (a score) for each of the five probe names and with
\* resistance_score, risk_assessment and recommendations.
C8_ReportAlwaysComplete ==
    pc = "done" =>
        /\ report.success
        /\ DOMAIN report.test_results = Range(ProbeNames)
        /\ \A n \in DOMAIN report.test_results :
              "score" \in DOMAIN report.test_results[n]
        /\ {"resistance_score", "risk_assessment", "recommendations"}
               \subseteq DOMAIN report

\* a report returned after both the contextual-reconstruction probe and the
\* linguistic-fingerprint probe failed
C8_ReportAfterFailedProbes ==
    /\ pc = "done"
    /\ report.success
    /\ "error" \in DOMAIN report.test_results["contextual_reconstruction"]
    /\ "error" \in DOMAIN report.test_results["linguistic_fingerprint"]

-----------------------------------------------------------------------------
(* Properties of the resistance score and of the scorer's weights.         *)

\* the score of a probe in the results handed to the scorers, 0 if missing
ScoreIn(test_results, n) == Get(Get(test_results, n, <<>>), "score", 0)

\* direct*0.30 + pattern*0.25 + contextual*0.20 + cross*0.15 +
\* linguistic*0.10, in ten-thousandths
StatedWeightedSum(test_results) ==
    30 * ScoreIn(test_results, "direct_identifier")
    + 25 * ScoreIn(test_results, "pattern_matching")
    + 20 * ScoreIn(test_results, "contextual_reconstruction")
    + 15 * ScoreIn(test_results, "cross_reference")
    + 10 * ScoreIn(test_results, "linguistic_fingerprint")

\* both scorers have scored the same results under the shipped weights
ScoredAsShipped == spc = "scored" /\ ShippedConfig

\* C9 as stated: the resistance score is the stated weighted sum, lies in
\* [0,100], and the tester's and the scorer's calculations give the same
\* value.
C9_SameResistanceValue ==
    ScoredAsShipped =>
        /\ scorer_resistance = StatedWeightedSum(reconstruction_results)
        /\ scorer_resistance >= 0 /\ scorer_resistance <= 1000000
        /\ 100 * tester_resistance = scorer_resistance

\* C9 amended: the scorer's value is the stated weighted sum and lies in
\* [0,100]; the tester's value is that sum rounded to two decimals, so it
\* lies in [0,100] and is within 0.005 of the scorer's value.
C9_ResistanceAgreesAfterRounding ==
    ScoredAsShipped =>
        /\ scorer_resistance = StatedWeightedSum(reconstruction_results)
        /\ scorer_resistance >= 0 /\ scorer_resistance <= 1000000
        /\ tester_resistance = RoundHalfEven(scorer_resistance, 100)
        /\ tester_resistance >= 0 /\ tester_resistance <= 10000
        /\ Abs(100 * tester_resistance - scorer_resistance) <= 50

\* five probe scores whose weighted sum has more than two decimals
C9_SumWithMoreDecimals ==
    /\ ScoredAsShipped
    /\ DOMAIN reconstruction_results = Range(ProbeNames)
    /\ scorer_resistance % 100 # 0

RECURSIVE WeightTotal(_, _)
\* the sum of the weights of the names in S
WeightTotal(weight_set, S) ==
    IF S = {} THEN 0
    ELSE LET n == CHOOSE x \in S : TRUE
         IN  weight_set[n] + WeightTotal(weight_set, S \ {n})

\* C10: a scorer is never constructed from, and never scores with, a weight
\* set that does not sum to 1.
C10_BadWeightsRejected ==
    spc \in {"ready", "scored"} =>
        \A k \in DOMAIN self_weights :
            WeightTotal(self_weights[k], DOMAIN self_weights[k]) = 100

-----------------------------------------------------------------------------
(* Properties of the overall score and of the quality level.               *)

\* calculate_overall_score has returned under the shipped weights
OverallAsShipped == spc = "overall" /\ ShippedConfig /\ overall_result.success

\* resistance*0.60 + strategic*0.40 of the two scores the result reports,
\* in ten-thousandths
ReportedWeightedSum ==
    60 * overall_result.reconstruction_resistance_score
    + 40 * overall_result.strategic_value_score

\* the strategic score handed in, in ten-thousandths
StrategicIn == Get(strategic_value_results, "strategic_value", 0)

\* C11 as stated: the reported overall_score is 0.60 times the reported
\* resistance score plus 0.40 times the reported strategic score, and lies
\* in [0,100].
C11_OverallIsWeightedSum ==
    OverallAsShipped =>
        /\ 100 * overall_result.overall_score = ReportedWeightedSum
        /\ overall_result.overall_score >= 0
        /\ overall_result.overall_score <= 10000

\* C11 amended: the reported overall_score is the weighted sum of the
\* unrounded scores rounded to two decimals, so it is within 0.01 of the
\* weighted sum of the two reported (rounded) scores, and lies in [0,100].
C11_OverallAgreesAfterRounding ==
    OverallAsShipped =>
        /\ overall_result.overall_score =
               RoundHalfEven(60 * StatedWeightedSum(reconstruction_results)
                             + 40 * StrategicIn, 10000)
        /\ Abs(100 * overall_result.overall_score - ReportedWeightedSum) <= 100
        /\ overall_result.overall_score >= 0
        /\ overall_result.overall_score <= 10000

\* the stated example: 87.5 and 75.0 give 82.5
C11_StatedExample ==
    /\ OverallAsShipped
    /\ overall_result.reconstruction_resistance_score = 8750
    /\ overall_result.strategic_value_score = 7500
    /\ overall_result.overall_score = 8250

\* the level of a score in hundredths under the fixed thresholds
LevelOf(score) ==
    IF score >= 9000 THEN "excellent"
    ELSE IF score >= 8000 THEN "good"
    ELSE IF score >= 7000 THEN "acceptable"
    ELSE IF score >= 6000 THEN "poor"
    ELSE "failed"

\* C12: the quality level of a result of calculate_overall_score is the one
\* its reported overall_score falls in: excellent from 90, good from 80,
\* acceptable from 70, poor from 60, failed below.
C12_LevelOfReportedScore ==
    spc = "overall" =>
        /\ overall_result.success
        /\ overall_result.quality_level.level
               = LevelOf(overall_result.overall_score)

\* a direct call of get_quality_level has returned
Leveled == spc = "leveled"

-----------------------------------------------------------------------------
(* Properties of chunk_text: identifiers, edge cases, reach of the overlap. *)

\* C14: the chunk_id values of the chunks are 0, 1, ..., n-1 in output
\* order.
C14_ChunkIdsCountFromZero ==
    \A i \in 1..Len(chunks) : chunks[i].chunk_id = i - 1

\* a finished run that returned at least three chunks
C14_ThreeChunksReturned == cpc = "done" /\ Len(chunks) >= 3

\* the text holds at least one word
HasWord(s) == Words(s) # <<>>

\* C15 as stated: an empty text gives no chunk, and a non-empty text of
\* fewer tokens than chunk_size gives exactly one chunk with no overlap text.
C15_EmptyNoneSmallOne ==
    cpc = "done" =>
        /\ text = <<>> => chunks = <<>>
        /\ (text # <<>> /\ count_tokens(text) < chunk_size) =>
               (Len(chunks) = 1 /\ overlap_texts = <<>>)

\* C15 amended: an empty text gives no chunk; a text of fewer tokens than
\* chunk_size gives exactly one chunk, seeded with no overlap text and
\* holding the words of the text, if it holds a word, and no chunk if it is
\* only whitespace.
C15_EmptyNoneSmallOneIfWord ==
    cpc = "done" =>
        /\ text = <<>> => chunks = <<>>
        /\ count_tokens(text) < chunk_size =>
               /\ overlap_texts = <<>>
               /\ HasWord(text) =>
                      (Len(chunks) = 1 /\ Words(chunks[1].text) = Words(text))
               /\ ~HasWord(text) => chunks = <<>>

\* a finished run on a text with a word and fewer tokens than chunk_size
C15_SmallTextChunked ==
    /\ cpc = "done"
    /\ HasWord(text)
    /\ count_tokens(text) >= 1
    /\ count_tokens(text) < chunk_size
    /\ Len(chunks) = 1

\* the number of characters of s that are not whitespace
NonSpace(s) == Len(SelectSeq(s, LAMBDA c : ~IsSpace(c)))

\* the characters of chunk i that were not carried into it as overlap
OwnChars(i) ==
    NonSpace(chunks[i].text) - (IF i = 1 THEN 0 ELSE NonSpace(SeedOf(i)))

\* C16: the overlap a chunk starts with is text of the chunk before it only:
\* it never reaches into what that chunk itself received as overlap, so no
\* text of chunk i reappears as overlap in chunk i+2.
C16_OverlapFromPreviousChunkOnly ==
    \A i \in 2..Len(overlap_texts) :
        i <= Len(chunks) => NonSpace(SeedOf(i + 1)) <= OwnChars(i)

-----------------------------------------------------------------------------
(* Properties of the corpus.                                               *)

Succeeded(document_data) == Get(document_data, "success", FALSE)

C18_NoEntryLostSizeIsCompared ==
    /\ Len(document_corpus) = Len(SelectSeq(added_documents, Succeeded))
    /\ (xpc = "returned" /\ "corpus_size" \in DOMAIN xref_result) =>
          xref_result.corpus_size = Len(xref_result.all_similarities)

-----------------------------------------------------------------------------
(* Properties of the cross-reference and direct-identifier probes.         *)

WordSet(t) == Range(Words(Lower(t)))

\* the word-set Jaccard similarity of two texts as a fraction <<num, den>>
\* (0 when neither text has a word)
Jaccard(t1, t2) ==
    IF WordSet(t1) \cup WordSet(t2) = {} THEN <<0, 1>>
    ELSE <<Cardinality(WordSet(t1) \cap WordSet(t2)),
           Cardinality(WordSet(t1) \cup WordSet(t2))>>

\* the largest Jaccard similarity of t with the first n corpus entries
MaxJaccard(t, n) ==
    CHOOSE j \in {Jaccard(t, document_corpus[i].text) : i \in 1..n} :
        \A i \in 1..n :
            ~FracGreater(Jaccard(t, document_corpus[i].text), j)

NoCorpusNote ==
    /\ DOMAIN xref_result = {"score", "message", "risk_level"}
    /\ xref_result.score = 10000
    /\ xref_result.risk_level = "low"

\* C19 as stated: the probe returns 100, low risk and a note on an empty
\* corpus, and otherwise exactly 100 * (1 - max_similarity).
C19_ScoreIsOneMinusMaxJaccard ==
    xpc = "returned" =>
        IF corpus_at_call = <<>> THEN NoCorpusNote
        ELSE LET j == MaxJaccard(xref_text, xref_next)
             IN  xref_result.score * j[2] = 10000 * (j[2] - j[1])

\* C19: the probe returns 100, low risk and a note when the corpus is empty
\* at the call, and otherwise 100 * (1 - max_similarity) rounded to two
\* decimals, max_similarity being the largest word-set Jaccard similarity of
\* the anonymized text with the corpus entries it was compared against.
C19_ScoreIsRoundedOneMinusMaxJaccard ==
    xpc = "returned" =>
        IF corpus_at_call = <<>> THEN NoCorpusNote
        ELSE LET j == MaxJaccard(xref_text, xref_next)
             IN  /\ xref_next >= Len(corpus_at_call)
                 /\ xref_result.score = Round2(100 * (j[2] - j[1]), j[2])

\* the probe compared against two entries, the second of them the more
\* similar one, and the score has more than two decimals before rounding
C19_SecondEntryMoreSimilar ==
    /\ xpc = "returned"
    /\ Len(corpus_at_call) = 2
    /\ xref_next = 2
    /\ FracGreater(Jaccard(xref_text, document_corpus[2].text),
                   Jaccard(xref_text, document_corpus[1].text))
    /\ xref_result.score \notin {0, 5000, 10000}

\* the distinct entity strings extract_entities_spacy found in the original
\* text of the run, lowercased
DistinctEntities ==
    LET found == extract_entities_spacy(original_text, ner_failed)
    IN  UNION {{Lower(found[c][j].text) : j \in 1..Len(found[c])} :
                  c \in DOMAIN found}

LeakedEntities ==
    {e \in DistinctEntities : IsSubstring(e, Lower(anonymized_text))}

\* C20: the direct-identifier probe scores 100 * (1 - leaked/total), to two
\* decimals, total being the number of distinct entity strings of the
\* original text and leaked the number of them that still occur
\* (case-insensitively) in the anonymized text, and 100 when there is no
\* entity or none of them occurs.
C20_ScoreOverDistinctEntities ==
    ("direct_identifier" \in DOMAIN results
        /\ "total_entities" \in DOMAIN results.direct_identifier) =>
        results.direct_identifier.score =
            IF DistinctEntities = {} THEN 10000
            ELSE Round2(100 * (Cardinality(DistinctEntities)
                                  - Cardinality(LeakedEntities)),
                        Cardinality(DistinctEntities))

-----------------------------------------------------------------------------
(* Further properties of chunk_text.                                       *)

\* C28: every chunk chunk_text returns has non-empty text.
C28_NoEmptyChunk ==
    \A i \in 1..Len(chunks) : chunks[i].text # <<>>

\* C29: the tokens value recorded in every chunk is count_tokens of the
\* chunk's text.
C29_TokensAreCountOfText ==
    \A i \in 1..Len(chunks) : chunks[i].tokens = count_tokens(chunks[i].text)

-----------------------------------------------------------------------------
(* Properties of the pattern probe.                                        *)

\* the legal patterns of the original text of the run that reappear among
\* the legal patterns of the anonymized text, each counted once
ReappearingPatterns ==
    SelectSeq(extract_legal_patterns(original_text),
        LAMBDA o : \E a \in Range(extract_legal_patterns(anonymized_text)) :
                      Lower(o.text) = Lower(a.text))

ReappearingPhrases ==
    extract_unique_phrases(original_text, 4)
        \cap extract_unique_phrases(anonymized_text, 4)

TotalPatterns ==
    Len(extract_legal_patterns(original_text))
        + Cardinality(extract_unique_phrases(original_text, 4))

\* C21: the pattern probe scores 100 * (1 - preserved/total), to two decimals,
\* total being the number of legal patterns plus 4-word n-grams of the
\* original text and preserved the number of those that reappear in the
\* anonymized text; preserved never exceeds total, and the score is 100 when
\* total is 0.
C21_ScoreOverReappearingPatterns ==
    ("pattern_matching" \in DOMAIN results
        /\ "total_patterns" \in DOMAIN results.pattern_matching) =>
        LET r == results.pattern_matching
            preserved == Len(ReappearingPatterns) + Cardinality(ReappearingPhrases)
        IN  /\ r.total_patterns = TotalPatterns
            /\ r.preserved_patterns <= r.total_patterns
            /\ r.score = IF TotalPatterns = 0 THEN 10000
                         ELSE Round2(100 * (TotalPatterns - preserved),
                                     TotalPatterns)

-----------------------------------------------------------------------------
(* Properties of process_batch.                                            *)

\* what process_file makes of a file that cannot be processed
FailureResult(r) ==
    /\ DOMAIN r = {"success", "error"}
    /\ r.success = FALSE

CannotBeProcessed(uploaded_file) ==
    \/ ~validate_file_size(uploaded_file.size)
    \/ FileExtension(uploaded_file.name)
          \notin {<<"p", "d", "f">>, <<"d", "o", "c", "x">>, <<"t", "x", "t">>}
    \/ Raised(uploaded_file.content)
    \/ Words(uploaded_file.content.text) = <<>>

\* C22: process_batch on n files, n not above max_batch_files, never
\* raises and returns n results in input order, the i-th being what
\* process_file makes of the i-th file alone: a failure result for a file
\* that cannot be processed, a document for every other file.
C22_OneResultPerFileInOrder ==
    /\ bpc # "raised"
    /\ \A i \in 1..Len(batch_results) :
          /\ batch_results[i] = process_file(uploaded_files[i])
          /\ IF CannotBeProcessed(uploaded_files[i])
             THEN FailureResult(batch_results[i])
             ELSE /\ batch_results[i].success
                  /\ batch_results[i].filename = uploaded_files[i].name
    /\ (bpc = "returned" /\ Len(uploaded_files) <= DOCUMENT_LIMITS.max_batch_files)
          => Len(batch_results) = Len(uploaded_files)

\* a batch of three files was processed whose second file could not be read
\* and whose third file could
C22_FailureBetweenDocuments ==
    /\ bpc = "returned"
    /\ Len(uploaded_files) = 3
    /\ Raised(uploaded_files[2].content)
    /\ batch_results[1].success
    /\ ~batch_results[2].success
    /\ batch_results[3].success

-----------------------------------------------------------------------------
(* Properties of anonymize_text and anonymize_chunks.                      *)

\* C23: a request naming a strategy outside traditional, strategic,
\* educational, custom is never executed with another strategy's prompt
\* template: no prompt is sent for it and nothing is anonymized.
C23_UnknownStrategyNotExecuted ==
    /\ \A i \in 1..Len(anon_calls) :
          anon_calls[i].template \in {"none", anon_strategy}
    /\ anon_strategy \notin PROMPT_TEMPLATES => anonymized_chunks = <<>>

ChunkIds(cs) == [i \in 1..Len(cs) |-> cs[i].chunk_id]

\* C26: anonymize_chunks hands every input chunk to anonymize_text exactly
\* once, in input order; a chunk that fails is noted in failed_chunks and the
\* later chunks are still processed; on return chunks_processed +
\* chunks_failed is the number of input chunks, and the combined text is
\* made of the successful chunks in increasing chunk_id order.
C26_EveryChunkOnceInOrder ==
    /\ ChunkIds(anon_calls) = ChunkIds(SubSeq(anon_chunks, 1, anon_next))
    /\ Len(anonymized_chunks) + Len(failed_chunks) = anon_next
    /\ Range(ChunkIds(anonymized_chunks)) \cap Range(ChunkIds(failed_chunks)) = {}
    /\ apc = "returned" =>
          /\ anon_next = Len(anon_chunks)
          /\ anon_result.success
          /\ anon_result.chunks_processed + anon_result.chunks_failed
                = Len(anon_chunks)
          /\ anon_result.failed_chunks = failed_chunks
          /\ \A i \in 1..(Len(anonymized_chunks) - 1) :
                anonymized_chunks[i].chunk_id < anonymized_chunks[i + 1].chunk_id
          /\ anon_result.anonymized_text =
                Strip(FlattenSeq([i \in 1..Len(anonymized_chunks) |->
                         anonymized_chunks[i].anonymized_text \o <<"\n", "\n">>]))

\* three chunks were handed over, the first failed, the other two did not
C26_FirstChunkFailedOthersDone ==
    /\ apc = "returned"
    /\ Len(anon_chunks) = 3
    /\ ChunkIds(failed_chunks) = <<0>>
    /\ ChunkIds(anonymized_chunks) = <<1, 2>>
    /\ anon_result.anonymized_text # <<>>

-----------------------------------------------------------------------------
(* Properties of validate_strategy_config.                                 *)

\* the guidelines are a non-empty string
NonEmptyText(g) == "text" \in DOMAIN g /\ g.text # <<>>

\* no guidelines were supplied: None or the empty string
NotSupplied(g) == "none" \in DOMAIN g \/ ("text" \in DOMAIN g /\ g.text = <<>>)

\* C24: validate_strategy_config succeeds exactly when the strategy is one
\* of traditional, strategic, educational, custom, a custom strategy comes
\* with non-empty guidelines, and supplied guidelines have at most 1000
\* characters; in every other case it returns a failure result.
C24_SucceedsExactlyWhenValid ==
    vpc = "returned" =>
        /\ "success" \in DOMAIN config_result
        /\ config_result.success <=>
              /\ config_strategy \in {"traditional", "strategic",
                                       "educational", "custom"}
              /\ config_strategy = "custom" => NonEmptyText(config_guidelines)
              /\ \/ NotSupplied(config_guidelines)
                 \/ /\ NonEmptyText(config_guidelines)
                    /\ Len(config_guidelines.text) <= 1000
        /\ ~config_result.success => "error" \in DOMAIN config_result

\* a custom strategy was refused for its missing guidelines, or guidelines
\* of 1001 characters for their length
C24_RefusedForGuidelines ==
    /\ vpc = "returned"
    /\ ~config_result.success
    /\ \/ config_strategy = "custom" /\ config_guidelines = [none |-> TRUE]
       \/ config_strategy = "strategic" /\ config_guidelines = [text |-> Filled(1001)]

-----------------------------------------------------------------------------
\* a fraction lies in [0, 100]
InPercentRange(x) == x[2] > 0 /\ 0 <= x[1] /\ x[1] <= 100 * x[2]

\* C25: calculate_strategic_value_score returns 0.40 * legal principle
\* retention + 0.30 * educational value + 0.20 * business intelligence
\* + 0.10 * procedural guidance of the two texts; each of the four
\* sub-scores lies in [0, 100], so does the result, and the result is 100
\* when the anonymized text equals the original.
C25_WeightedSumOfSubScores ==
    svpc = "returned" =>
        LET l == value_scores.legal_principle_retention
            e == value_scores.educational_value
            b == value_scores.business_intelligence
            g == value_scores.procedural_guidance
        IN  /\ InPercentRange(l) /\ InPercentRange(e)
            /\ InPercentRange(b) /\ InPercentRange(g)
            /\ Reduced(<<100 * value_total[1], value_total[2]>>)
                 = FracAdd(FracAdd(<<40 * l[1], l[2]>>, <<30 * e[1], e[2]>>),
                           FracAdd(<<20 * b[1], b[2]>>, <<10 * g[1], g[2]>>))
            /\ InPercentRange(value_total)
            /\ (value_anonymized = value_original
                    => value_total[1] = 100 * value_total[2])

\* C25 happens: the anonymized text holds more educational terms than the
\* original, which holds one, and the score returned is below 100
C25_ClampedSubScoreBelowHundred ==
    /\ svpc = "returned"
    /\ TermCount(educational_elements, value_original) > 0
    /\ TermCount(educational_elements, value_anonymized)
         > TermCount(educational_elements, value_original)
    /\ value_scores.educational_value = <<100, 1>>
    /\ 0 < value_total[1]
    /\ value_total[1] < 100 * value_total[2]


-----------------------------------------------------------------------------
\* the invocations made so far that raised
FailedCalls == {i \in 1..Len(retry_calls) : "value" \notin DOMAIN retry_calls[i]}

RetryOver == rpc \in {"returned", "raised"}

\* what holds in every state of a call with max_retries >= 1
RetryStateRule ==
    retry_max >= 1 =>
        /\ Len(retry_calls) <= retry_max
        \* only the last invocation made can be one that returned
        /\ \A i \in 1..(Len(retry_calls) - 1) : i \in FailedCalls
        /\ rpc = "returned" =>
               /\ Len(retry_calls) >= 1
               /\ Len(retry_calls) \notin FailedCalls
               /\ retry_result = retry_calls[Len(retry_calls)]
        /\ rpc = "raised" =>
               /\ Len(retry_calls) >= 1
               /\ FailedCalls = 1..Len(retry_calls)
               /\ "raised" \in DOMAIN retry_result
               /\ retry_result.raised
                    = (IF "fatal" \in DOMAIN retry_calls[Len(retry_calls)]
                       THEN retry_calls[Len(retry_calls)].fatal
                       ELSE retry_calls[Len(retry_calls)].raised)
        \* a sleep follows a failed invocation that is not the final one
        /\ \A k \in 1..Len(retry_sleeps) :
               /\ retry_sleeps[k].after = k
               /\ k \in FailedCalls
               /\ k < retry_max
        \* and once the call is over another invocation has followed it
        /\ RetryOver => Len(retry_sleeps) = Len(retry_calls) - 1

\* once the call is over func is not invoked and nothing sleeps
RetryStepRule ==
    RetryOver => /\ retry_calls' = retry_calls
                 /\ retry_sleeps' = retry_sleeps
                 /\ retry_result' = retry_result

-----------------------------------------------------------------------------
\* C30: in the Upload / Anonymize / Test / Results workflow the stored test
\* results of a document were always computed from the anonymization result
\* that is currently stored for it, and the Results page combines the two
\* of one anonymization: anonymizing a document again never leaves older
\* test results in use.
C30_TestResultsOfStoredAnonymization ==
    /\ \A d \in DOMAIN session_test_results :
           /\ d \in DOMAIN session_anonymization_results
           /\ tests_computed_from[d] = session_anonymization_results[d]
    /\ results_shown.shown =>
           results_shown.test_results_of = results_shown.strategic_score_of


====
